---- MODULE Spec2Model ----
(***************************************************************************)
(* The Fiet maker intent policy (contracts/stylus/src/fiet-maker-policy):  *)
(* the Kernel policy module IntentPolicy, its envelope parser, its EIP-712 *)
(* digest, its signature recovery, its program decoder, its evaluator and  *)
(* its on-chain facts provider.                                            *)
(*                                                                         *)
(* Conventions.                                                            *)
(*  - A byte string is a sequence of bytes.  A byte is a tuple: <<n>> is   *)
(*    the literal byte n; <<"keccak256", p, i>> is byte i of the Keccak    *)
(*    hash of the preimage p; <<"ecdsa", sv, i>> is byte i of r||s of the  *)
(*    ECDSA signature sv.  Keccak and ECDSA are symbolic: two hashes are   *)
(*    equal exactly when their preimages are, and a signature recovers to  *)
(*    its key's address exactly for the digest it was made over.           *)
(*  - Result<T, E> is a record with a field ok; Ok carries val, Err err.   *)
(*  - U256 arithmetic saturates at U256_MAX, which stands for 2^256 - 1.   *)
(***************************************************************************)
EXTENDS Integers, Sequences, FiniteSets, TLC

(***************************************************************************)
(* Bounds of the model.                                                    *)
(***************************************************************************)
\* U256::MAX, narrowed so that a counter can reach it.
U256_MAX == 2

(***************************************************************************)
(* Bytes.                                                                  *)
(***************************************************************************)
\* bytes[i - 1] of Rust: element i of a sequence, 1-based.
At(bytes, i) == Head(SubSeq(bytes, i, i))

Lit(n) == <<n>>

IsLit(b) == Len(b) = 1

\* The numeric value of a byte; a byte of a hash or a signature has a value
\* the model does not know and reads as 0.
ByteVal(b) == IF Len(b) = 1 THEN Head(b) ELSE 0

LitBytes(ns) == [i \in 1..Len(ns) |-> Lit(At(ns, i))]

Zeros(n) == [i \in 1..n |-> Lit(0)]

\* bytes[from..to] of Rust: 0-based, to exclusive.
Slice(bytes, from, to) == SubSeq(bytes, from + 1, to)

\* 32 zero bytes.
ZeroWord == Zeros(32)

Pow256(j) == IF j = 0 THEN 1 ELSE IF j = 1 THEN 256 ELSE IF j = 2 THEN 65536 ELSE 16777216

\* v.to_be_bytes() in a field of `width` <= 36 bytes, for 0 <= v < 2^31.
to_be_bytes(v, width) ==
    LET low(n) == [i \in 1..n |-> Lit((v \div Pow256(n - i)) % 256)]
    IN  IF width > 4 THEN SubSeq(ZeroWord, 1, width - 4) \o low(4) ELSE low(width)

RECURSIVE from_be_slice(_)
\* U256::from_be_slice, uN::from_be_bytes: the big-endian value of a byte
\* slice, three bytes at a time from the low end.  Leading zero bytes add
\* nothing.
from_be_slice(bytes) ==
    LET n == Len(bytes)
        low == IF n = 0 THEN 0
               ELSE IF n = 1 THEN ByteVal(At(bytes, 1))
               ELSE IF n = 2 THEN ByteVal(At(bytes, 1)) * 256 + ByteVal(At(bytes, 2))
               ELSE ByteVal(At(bytes, n - 2)) * 65536 + ByteVal(At(bytes, n - 1)) * 256
                        + ByteVal(At(bytes, n))
    IN  IF n <= 3 THEN low
        ELSE IF n <= 35 /\ SubSeq(bytes, 1, n - 3) = SubSeq(ZeroWord, 1, n - 3) THEN low
        ELSE from_be_slice(SubSeq(bytes, 1, n - 3)) * 16777216 + low

\* i32::from_be_bytes: two's complement of 4 bytes.
i32_from_be_bytes(bytes) ==
    LET hi == ByteVal(At(bytes, 1))
        lo == from_be_slice(SubSeq(bytes, 2, 4))
    IN  IF hi >= 128 THEN (hi - 256) * 16777216 + lo ELSE hi * 16777216 + lo

\* i32::to_be_bytes.
i32_to_be_bytes(v) ==
    IF v >= 0 THEN to_be_bytes(v, 4)
    ELSE LET m == (v + 2147483647) + 1    \* v - (-2^31), in 0 .. 2^31 - 1
         IN  <<Lit(128 + (m \div 16777216))>> \o to_be_bytes(m % 16777216, 3)

(***************************************************************************)
(* Addresses.  An Address is the number its 20 bytes spell; Address::ZERO  *)
(* is 0.                                                                   *)
(***************************************************************************)
ADDRESS_ZERO == 0

address_as_slice(a) == to_be_bytes(a, 20)

address_from_slice(bytes) == from_be_slice(bytes)

\* The 32-byte ABI word of an address: 12 zero bytes, then the 20 bytes.
pad_address(a) == Zeros(12) \o address_as_slice(a)

(***************************************************************************)
(* Keccak-256, symbolic.  keccak256 hashes a byte string; keccak256_ascii  *)
(* hashes a string literal of the source; keccak256_words hashes a buffer  *)
(* that the code fills with 32-byte words, kept as the tuple of its words. *)
(***************************************************************************)
\* The 32 bytes of the hash named <<tag, preimage>>.
hash_bytes(tag, preimage) == [i \in 1..32 |-> <<tag, preimage, i>>]

keccak256(bytes) == hash_bytes("keccak256", bytes)

keccak256_ascii(str) == hash_bytes("keccak256_ascii", str)

IsHashWord(w) ==
    /\ Len(w) = 32
    /\ Len(Head(w)) = 3
    /\ w = hash_bytes(At(Head(w), 1), At(Head(w), 2))

\* A 32-byte word inside a hashed buffer: a hash is named by its preimage.
WordId(w) == IF IsHashWord(w) THEN <<At(Head(w), 1), At(Head(w), 2)>> ELSE w

keccak256_words(prefix, words) ==
    hash_bytes("keccak256_words",
               <<prefix>> \o [j \in 1..Len(words) |-> WordId(At(words, j))])

(***************************************************************************)
(* utils/bytes.rs: big-endian readers with a cursor.  Each returns         *)
(* [ok, val, i]: the value and the cursor after it, or ok = FALSE.         *)
(***************************************************************************)
ReadErr == [ok |-> FALSE]

bytes_read_vec(bytes, i, len) ==
    IF Len(bytes) < i + len THEN ReadErr
    ELSE [ok |-> TRUE, val |-> Slice(bytes, i, i + len), i |-> i + len]

bytes_read_u16_be(bytes, i) ==
    IF Len(bytes) < i + 2 THEN ReadErr
    ELSE [ok |-> TRUE, val |-> from_be_slice(Slice(bytes, i, i + 2)), i |-> i + 2]

bytes_read_u32_be(bytes, i) ==
    IF Len(bytes) < i + 4 THEN ReadErr
    ELSE [ok |-> TRUE, val |-> from_be_slice(Slice(bytes, i, i + 4)), i |-> i + 4]

bytes_read_u64_be(bytes, i) ==
    IF Len(bytes) < i + 8 THEN ReadErr
    ELSE [ok |-> TRUE, val |-> from_be_slice(Slice(bytes, i, i + 8)), i |-> i + 8]

bytes_read_u256_be(bytes, i) ==
    IF Len(bytes) < i + 32 THEN ReadErr
    ELSE [ok |-> TRUE, val |-> from_be_slice(Slice(bytes, i, i + 32)), i |-> i + 32]

bytes_read_b32(bytes, i) ==
    IF Len(bytes) < i + 32 THEN ReadErr
    ELSE [ok |-> TRUE, val |-> Slice(bytes, i, i + 32), i |-> i + 32]

(***************************************************************************)
(* utils/policy_envelope.rs                                                *)
(***************************************************************************)
ParseErr == [ok |-> FALSE]

\* A faulty trailing_bytes: whatever follows the signature is ignored.
trailing_bytes_ignored(sig, i) == FALSE

\* The last test of parse_policy_envelope: the cursor is not at the end.
trailing_bytes(sig, i) == i # Len(sig)

\* parse_policy_envelope(sig): Ok(ParsedPolicyIntent) or Err(()).
parse_policy_envelope(sig) ==
    IF Len(sig) < 2 + 32 + 8 + 32 + 4 + 2 THEN ParseErr
    ELSE
    LET version == bytes_read_u16_be(sig, 0) IN
    IF ~version.ok THEN ParseErr ELSE
    LET nonce == bytes_read_u256_be(sig, version.i) IN
    IF ~nonce.ok THEN ParseErr ELSE
    LET deadline == bytes_read_u64_be(sig, nonce.i) IN
    IF ~deadline.ok THEN ParseErr ELSE
    LET call_bundle_hash == bytes_read_b32(sig, deadline.i) IN
    IF ~call_bundle_hash.ok THEN ParseErr ELSE
    LET program_len == bytes_read_u32_be(sig, call_bundle_hash.i) IN
    IF ~program_len.ok THEN ParseErr ELSE
    LET program_bytes == bytes_read_vec(sig, program_len.i, program_len.val) IN
    IF ~program_bytes.ok THEN ParseErr ELSE
    LET sig_len == bytes_read_u16_be(sig, program_bytes.i) IN
    IF ~sig_len.ok THEN ParseErr ELSE
    IF sig_len.val # 65 THEN ParseErr ELSE
    LET sig_bytes == bytes_read_vec(sig, sig_len.i, sig_len.val) IN
    IF ~sig_bytes.ok THEN ParseErr ELSE
    IF trailing_bytes(sig, sig_bytes.i) THEN ParseErr ELSE
    [ok |-> TRUE,
     val |-> [version |-> version.val,
              nonce |-> nonce.val,
              deadline |-> deadline.val,
              call_bundle_hash |-> call_bundle_hash.val,
              program_bytes |-> program_bytes.val,
              signature |-> sig_bytes.val]]

\* A faulty policy_intent_digest: the struct hash leaves the permission id
\* out (a zero word in its place).
policy_intent_digest_without_permission(chain_id, verifying_contract, wallet, permission_id, nonce, deadline, call_bundle_hash, program_bytes) ==
    LET program_hash == keccak256(program_bytes)
        domain_type_hash ==
            keccak256_ascii("EIP712Domain(string name,string version,uint256 chainId,address verifyingContract)")
        domain_name_hash == keccak256_ascii("Fiet Maker Intent Policy")
        domain_version_hash == keccak256_ascii("1")
        domain_buf == <<domain_type_hash, domain_name_hash, domain_version_hash,
                        to_be_bytes(chain_id, 32), pad_address(verifying_contract)>>
        domain_separator == keccak256_words(<<>>, domain_buf)
        msg_type_hash ==
            keccak256_ascii("IntentPolicyEnvelope(address wallet,bytes32 permissionId,uint256 nonce,uint64 deadline,bytes32 callBundleHash,bytes32 programHash)")
        struct_buf == <<msg_type_hash, pad_address(wallet), Zeros(32),
                        to_be_bytes(nonce, 32), Zeros(24) \o to_be_bytes(deadline, 8),
                        call_bundle_hash, program_hash>>
        struct_hash == keccak256_words(<<>>, struct_buf)
    IN  keccak256_words(<<25, 1>>, <<domain_separator, struct_hash>>)

\* policy_intent_digest: the EIP-712 digest the configured signer signs.
policy_intent_digest(chain_id, verifying_contract, wallet, permission_id, nonce, deadline, call_bundle_hash, program_bytes) ==
    LET program_hash == keccak256(program_bytes)
        domain_type_hash ==
            keccak256_ascii("EIP712Domain(string name,string version,uint256 chainId,address verifyingContract)")
        domain_name_hash == keccak256_ascii("Fiet Maker Intent Policy")
        domain_version_hash == keccak256_ascii("1")
        domain_buf == <<domain_type_hash, domain_name_hash, domain_version_hash,
                        to_be_bytes(chain_id, 32), pad_address(verifying_contract)>>
        domain_separator == keccak256_words(<<>>, domain_buf)
        msg_type_hash ==
            keccak256_ascii("IntentPolicyEnvelope(address wallet,bytes32 permissionId,uint256 nonce,uint64 deadline,bytes32 callBundleHash,bytes32 programHash)")
        struct_buf == <<msg_type_hash, pad_address(wallet), permission_id,
                        to_be_bytes(nonce, 32), Zeros(24) \o to_be_bytes(deadline, 8),
                        call_bundle_hash, program_hash>>
        struct_hash == keccak256_words(<<>>, struct_buf)
    IN  keccak256_words(<<25, 1>>, <<domain_separator, struct_hash>>)

(***************************************************************************)
(* utils/crypto.rs and the ecrecover precompile at address 0x01.           *)
(*                                                                         *)
(* A signature value is <<a, d, y>>: made by the key whose address is a,   *)
(* over the digest named d, with recovery id y in {0, 1}.  Its wire form   *)
(* is r || s || v, 65 bytes.                                               *)
(***************************************************************************)
\* The 64 bytes r || s of a signature value.
signature_rs(sv) == [i \in 1..64 |-> <<"ecdsa", sv, i>>]

\* Whether r and s are the two halves of one signature value.
IsSignature(r, s) ==
    /\ Len(Head(r)) = 3
    /\ r \o s = signature_rs(At(Head(r), 2))

\* What recovery yields for a digest or a parity the signature was not made
\* for: the address of an unrelated public key.
UNRELATED_ADDRESS == 238

\* The precompile: input = hash(32) || v(32) || r(32) || s(32); the output is
\* the 32-byte word of the recovered address, or empty when nothing recovers.
ecrecover_precompile(input) ==
    LET hash == Slice(input, 0, 32)
        v == from_be_slice(Slice(input, 32, 64))
        r == Slice(input, 64, 96)
        s == Slice(input, 96, 128)
        recover(sv) ==
            IF At(sv, 2) = WordId(hash) /\ v = 27 + At(sv, 3)
            THEN pad_address(At(sv, 1))
            ELSE pad_address(UNRELATED_ADDRESS)
    IN  IF v \notin {27, 28} THEN <<>>
        ELSE IF ~IsSignature(r, s) THEN <<>>
        ELSE recover(At(Head(r), 2))

\* The precompile at address 0x01 as the EVM defines it.
EvmPrecompile == [kind |-> "evm"]

\* A precompile whose call with each v has a given outcome: [ok |-> FALSE]
\* when the call fails, [ok |-> TRUE, val |-> output] otherwise.
TablePrecompile(outcomes) == [kind |-> "table", outcomes |-> outcomes]

\* RawCall::new_static().gas(50_000).call(to, &input) on the precompile.
precompile_call(precompile, input) ==
    IF precompile.kind = "evm" THEN [ok |-> TRUE, val |-> ecrecover_precompile(input)]
    ELSE precompile.outcomes[from_be_slice(Slice(input, 32, 64))]

\* A faulty ecrecover_candidates: both values of v are always tried.
ecrecover_candidates_both(v_raw) == <<27, 28>>

\* The candidate values of v that ecrecover_address tries, in order.
ecrecover_candidates(v_raw) ==
    IF v_raw \in {27, 28} THEN <<v_raw>>
    ELSE IF v_raw \in {0, 1} THEN <<v_raw + 27>>
    ELSE <<27, 28>>

RECURSIVE ecrecover_loop(_, _, _, _, _, _)
\* The for loop over the candidates; calls is the log of precompile calls.
\* A failed call returns Err(()) at once (map_err(|_| ())?).
ecrecover_loop(precompile, digest, r, s, candidates, calls) ==
    IF Len(candidates) = 0 THEN [ok |-> FALSE, calls |-> calls]
    ELSE
    LET v == Head(candidates)
        input == digest \o Zeros(31) \o <<Lit(v)>> \o r \o s
        calls1 == Append(calls, <<"ecrecover", v>>)
        next(out) ==
            IF Len(out) < 32
            THEN ecrecover_loop(precompile, digest, r, s, Tail(candidates), calls1)
            ELSE LET recovered == address_from_slice(Slice(out, 12, 32))
                 IN  IF recovered # ADDRESS_ZERO
                     THEN [ok |-> TRUE, val |-> recovered, calls |-> calls1]
                     ELSE ecrecover_loop(precompile, digest, r, s, Tail(candidates), calls1)
        called(result) ==
            IF ~result.ok THEN [ok |-> FALSE, calls |-> calls1] ELSE next(result.val)
    IN  called(precompile_call(precompile, input))

\* ecrecover_address(digest, sig) against a given precompile: Ok(address) or
\* Err(()), with the calls made.
ecrecover_address_with(precompile, digest, sig) ==
    LET r == Slice(sig, 0, 32)
        s == Slice(sig, 32, 64)
        v_raw == ByteVal(At(sig, 65))
    IN  ecrecover_loop(precompile, digest, r, s, ecrecover_candidates(v_raw), <<>>)

\* ecrecover_address(digest, sig) on the EVM.
ecrecover_address(digest, sig) == ecrecover_address_with(EvmPrecompile, digest, sig)

(***************************************************************************)
(* utils/kernel.rs                                                         *)
(***************************************************************************)
\* A faulty composite_key: the permission id is left out of the key.
composite_key_of_wallet(wallet, permission_id) == keccak256(address_as_slice(wallet))

\* composite_key(wallet, permission_id) = keccak256(wallet || permissionId).
composite_key(wallet, permission_id) ==
    keccak256(address_as_slice(wallet) \o permission_id)

\* split_policy_install_data(data): Ok((permissionId, initData)) or Err(()).
split_policy_install_data(data) ==
    IF Len(data) < 32 THEN [ok |-> FALSE]
    ELSE [ok |-> TRUE,
          permission_id |-> Slice(data, 0, 32),
          init_data |-> Slice(data, 32, Len(data))]

(***************************************************************************)
(* shared/fiet-maker-policy-types/src/opcodes.rs and decoder.rs            *)
(*                                                                         *)
(* A Check is a record with a field op naming its variant.  A DecodeError  *)
(* is <<"UnknownOpcode", b>>, <<"Truncated">> or <<"TooManyChecks">>.      *)
(***************************************************************************)
MAX_CHECKS_DEFAULT == 64

Truncated == [ok |-> FALSE, err |-> <<"Truncated">>]

\* Opcode::try_from(value).
opcode_try_from(value) ==
    CASE value = 1 -> [ok |-> TRUE, val |-> "CheckDeadline"]
      [] value = 2 -> [ok |-> TRUE, val |-> "CheckNonce"]
      [] value = 3 -> [ok |-> TRUE, val |-> "CheckCallBundleHash"]
      [] value = 17 -> [ok |-> TRUE, val |-> "CheckTokenAmountLte"]
      [] value = 18 -> [ok |-> TRUE, val |-> "CheckNativeValueLte"]
      [] value = 19 -> [ok |-> TRUE, val |-> "CheckLiquidityDeltaLte"]
      [] value = 32 -> [ok |-> TRUE, val |-> "CheckSlot0TickBounds"]
      [] value = 33 -> [ok |-> TRUE, val |-> "CheckSlot0SqrtPriceBounds"]
      [] value = 48 -> [ok |-> TRUE, val |-> "CheckRfsClosed"]
      [] value = 49 -> [ok |-> TRUE, val |-> "CheckQueueLte"]
      [] value = 50 -> [ok |-> TRUE, val |-> "CheckReserveGte"]
      [] value = 51 -> [ok |-> TRUE, val |-> "CheckSettledGte"]
      [] value = 52 -> [ok |-> TRUE, val |-> "CheckCommitmentDeficitLte"]
      [] value = 53 -> [ok |-> TRUE, val |-> "CheckGracePeriodGte"]
      [] value = 240 -> [ok |-> TRUE, val |-> "CheckStaticCallU256"]
      [] OTHER -> [ok |-> FALSE]

read_vec(bytes, i, len) ==
    IF Len(bytes) < i + len THEN Truncated
    ELSE [ok |-> TRUE, val |-> Slice(bytes, i, i + len), i |-> i + len]

read_u16(bytes, i) ==
    IF Len(bytes) < i + 2 THEN Truncated
    ELSE [ok |-> TRUE, val |-> from_be_slice(Slice(bytes, i, i + 2)), i |-> i + 2]

\* A faulty read: a u64 that runs past the end reads as zero.
read_u64_lenient(bytes, i) ==
    IF Len(bytes) < i + 8 THEN [ok |-> TRUE, val |-> 0, i |-> Len(bytes)]
    ELSE [ok |-> TRUE, val |-> from_be_slice(Slice(bytes, i, i + 8)), i |-> i + 8]

read_u64(bytes, i) ==
    IF Len(bytes) < i + 8 THEN Truncated
    ELSE [ok |-> TRUE, val |-> from_be_slice(Slice(bytes, i, i + 8)), i |-> i + 8]

read_i32(bytes, i) ==
    IF Len(bytes) < i + 4 THEN Truncated
    ELSE [ok |-> TRUE, val |-> i32_from_be_bytes(Slice(bytes, i, i + 4)), i |-> i + 4]

read_u128(bytes, i) ==
    IF Len(bytes) < i + 16 THEN Truncated
    ELSE [ok |-> TRUE, val |-> from_be_slice(Slice(bytes, i, i + 16)), i |-> i + 16]

read_u256(bytes, i) ==
    IF Len(bytes) < i + 32 THEN Truncated
    ELSE [ok |-> TRUE, val |-> from_be_slice(Slice(bytes, i, i + 32)), i |-> i + 32]

read_b32(bytes, i) ==
    IF Len(bytes) < i + 32 THEN Truncated
    ELSE [ok |-> TRUE, val |-> Slice(bytes, i, i + 32), i |-> i + 32]

read_address(bytes, i) ==
    IF Len(bytes) < i + 20 THEN Truncated
    ELSE [ok |-> TRUE, val |-> address_from_slice(Slice(bytes, i, i + 20)), i |-> i + 20]

read_selector(bytes, i) ==
    IF Len(bytes) < i + 4 THEN Truncated
    ELSE [ok |-> TRUE, val |-> Slice(bytes, i, i + 4), i |-> i + 4]

read_comp_op(bytes, i) ==
    IF Len(bytes) <= i THEN Truncated
    ELSE LET b == ByteVal(At(bytes, i + 1))
         IN  CASE b = 0 -> [ok |-> TRUE, val |-> "Lt", i |-> i + 1]
               [] b = 1 -> [ok |-> TRUE, val |-> "Lte", i |-> i + 1]
               [] b = 2 -> [ok |-> TRUE, val |-> "Gt", i |-> i + 1]
               [] b = 3 -> [ok |-> TRUE, val |-> "Gte", i |-> i + 1]
               [] b = 4 -> [ok |-> TRUE, val |-> "Eq", i |-> i + 1]
               [] b = 5 -> [ok |-> TRUE, val |-> "Neq", i |-> i + 1]
               [] OTHER -> [ok |-> FALSE, err |-> <<"UnknownOpcode", b>>]

\* Ok(check) with the cursor after its operands; the ? on a failed read.
Decoded(check, i) == [ok |-> TRUE, val |-> check, i |-> i]

DecodeFail(r) == [ok |-> FALSE, err |-> r.err]

\* The match on the opcode in decode_program_with_limit: the operands of one
\* check, read from cursor i (just after the opcode byte).
decode_check(opcode, bytes, i) ==
    CASE opcode = "CheckDeadline" ->
            LET deadline == read_u64(bytes, i) IN
            IF ~deadline.ok THEN DecodeFail(deadline) ELSE
            Decoded([op |-> "Deadline", deadline |-> deadline.val], deadline.i)
      [] opcode = "CheckNonce" ->
            LET nonce == read_u256(bytes, i) IN
            IF ~nonce.ok THEN DecodeFail(nonce) ELSE
            Decoded([op |-> "Nonce", expected |-> nonce.val], nonce.i)
      [] opcode = "CheckCallBundleHash" ->
            LET hash == read_b32(bytes, i) IN
            IF ~hash.ok THEN DecodeFail(hash) ELSE
            Decoded([op |-> "CallBundleHash", hash |-> hash.val], hash.i)
      [] opcode = "CheckTokenAmountLte" ->
            LET token == read_address(bytes, i) IN
            IF ~token.ok THEN DecodeFail(token) ELSE
            LET max == read_u256(bytes, token.i) IN
            IF ~max.ok THEN DecodeFail(max) ELSE
            Decoded([op |-> "TokenAmountLte", token |-> token.val, max |-> max.val], max.i)
      [] opcode = "CheckNativeValueLte" ->
            LET max == read_u256(bytes, i) IN
            IF ~max.ok THEN DecodeFail(max) ELSE
            Decoded([op |-> "NativeValueLte", max |-> max.val], max.i)
      [] opcode = "CheckLiquidityDeltaLte" ->
            LET max == read_u128(bytes, i) IN
            IF ~max.ok THEN DecodeFail(max) ELSE
            Decoded([op |-> "LiquidityDeltaLte", max |-> max.val], max.i)
      [] opcode = "CheckSlot0TickBounds" ->
            LET pool_id == read_b32(bytes, i) IN
            IF ~pool_id.ok THEN DecodeFail(pool_id) ELSE
            LET min == read_i32(bytes, pool_id.i) IN
            IF ~min.ok THEN DecodeFail(min) ELSE
            LET max == read_i32(bytes, min.i) IN
            IF ~max.ok THEN DecodeFail(max) ELSE
            Decoded([op |-> "Slot0TickBounds", pool_id |-> pool_id.val,
                     min |-> min.val, max |-> max.val], max.i)
      [] opcode = "CheckSlot0SqrtPriceBounds" ->
            LET pool_id == read_b32(bytes, i) IN
            IF ~pool_id.ok THEN DecodeFail(pool_id) ELSE
            LET min == read_u256(bytes, pool_id.i) IN
            IF ~min.ok THEN DecodeFail(min) ELSE
            LET max == read_u256(bytes, min.i) IN
            IF ~max.ok THEN DecodeFail(max) ELSE
            Decoded([op |-> "Slot0SqrtPriceBounds", pool_id |-> pool_id.val,
                     min |-> min.val, max |-> max.val], max.i)
      [] opcode = "CheckRfsClosed" ->
            LET position_id == read_b32(bytes, i) IN
            IF ~position_id.ok THEN DecodeFail(position_id) ELSE
            Decoded([op |-> "RfsClosed", position_id |-> position_id.val], position_id.i)
      [] opcode = "CheckQueueLte" ->
            LET lcc == read_address(bytes, i) IN
            IF ~lcc.ok THEN DecodeFail(lcc) ELSE
            LET owner == read_address(bytes, lcc.i) IN
            IF ~owner.ok THEN DecodeFail(owner) ELSE
            LET max == read_u256(bytes, owner.i) IN
            IF ~max.ok THEN DecodeFail(max) ELSE
            Decoded([op |-> "QueueLte", lcc |-> lcc.val, owner |-> owner.val,
                     max |-> max.val], max.i)
      [] opcode = "CheckReserveGte" ->
            LET lcc == read_address(bytes, i) IN
            IF ~lcc.ok THEN DecodeFail(lcc) ELSE
            LET min == read_u256(bytes, lcc.i) IN
            IF ~min.ok THEN DecodeFail(min) ELSE
            Decoded([op |-> "ReserveGte", lcc |-> lcc.val, min |-> min.val], min.i)
      [] opcode = "CheckSettledGte" ->
            LET position_id == read_b32(bytes, i) IN
            IF ~position_id.ok THEN DecodeFail(position_id) ELSE
            LET min_amount0 == read_u256(bytes, position_id.i) IN
            IF ~min_amount0.ok THEN DecodeFail(min_amount0) ELSE
            LET min_amount1 == read_u256(bytes, min_amount0.i) IN
            IF ~min_amount1.ok THEN DecodeFail(min_amount1) ELSE
            Decoded([op |-> "SettledGte", position_id |-> position_id.val,
                     min_amount0 |-> min_amount0.val, min_amount1 |-> min_amount1.val],
                    min_amount1.i)
      [] opcode = "CheckCommitmentDeficitLte" ->
            LET position_id == read_b32(bytes, i) IN
            IF ~position_id.ok THEN DecodeFail(position_id) ELSE
            LET max_deficit0 == read_u256(bytes, position_id.i) IN
            IF ~max_deficit0.ok THEN DecodeFail(max_deficit0) ELSE
            LET max_deficit1 == read_u256(bytes, max_deficit0.i) IN
            IF ~max_deficit1.ok THEN DecodeFail(max_deficit1) ELSE
            Decoded([op |-> "CommitmentDeficitLte", position_id |-> position_id.val,
                     max_deficit0 |-> max_deficit0.val, max_deficit1 |-> max_deficit1.val],
                    max_deficit1.i)
      [] opcode = "CheckGracePeriodGte" ->
            LET position_id == read_b32(bytes, i) IN
            IF ~position_id.ok THEN DecodeFail(position_id) ELSE
            LET min_seconds == read_u64(bytes, position_id.i) IN
            IF ~min_seconds.ok THEN DecodeFail(min_seconds) ELSE
            Decoded([op |-> "GracePeriodGte", position_id |-> position_id.val,
                     min_seconds |-> min_seconds.val], min_seconds.i)
      [] opcode = "CheckStaticCallU256" ->
            LET target == read_address(bytes, i) IN
            IF ~target.ok THEN DecodeFail(target) ELSE
            LET selector == read_selector(bytes, target.i) IN
            IF ~selector.ok THEN DecodeFail(selector) ELSE
            LET args_len == read_u16(bytes, selector.i) IN
            IF ~args_len.ok THEN DecodeFail(args_len) ELSE
            LET args == read_vec(bytes, args_len.i, args_len.val) IN
            IF ~args.ok THEN DecodeFail(args) ELSE
            LET op == read_comp_op(bytes, args.i) IN
            IF ~op.ok THEN DecodeFail(op) ELSE
            LET rhs == read_u256(bytes, op.i) IN
            IF ~rhs.ok THEN DecodeFail(rhs) ELSE
            Decoded([op |-> "StaticCallU256", target |-> target.val,
                     selector |-> selector.val, args |-> args.val,
                     cmp |-> op.val, rhs |-> rhs.val], rhs.i)

\* A faulty pass: a byte that is not an opcode ends the program.
decode_pass_stops_at_unknown(bytes, s, max_checks) ==
    LET push(check) ==
            IF ~check.ok THEN [s EXCEPT !.err = check.err]
            ELSE [i |-> check.i, checks |-> Append(s.checks, check.val), err |-> <<>>]
        match(b, opcode) ==
            IF ~opcode.ok THEN [s EXCEPT !.i = Len(bytes)]
            ELSE push(decode_check(opcode.val, bytes, s.i + 1))
        try_from(b) == match(b, opcode_try_from(b))
    IN  IF Len(s.err) > 0 \/ ~(s.i < Len(bytes)) THEN s
        ELSE IF Len(s.checks) >= max_checks THEN [s EXCEPT !.err = <<"TooManyChecks">>]
        ELSE try_from(ByteVal(At(bytes, s.i + 1)))

\* A faulty pass: the limit is compared after the check beyond it is pushed.
decode_pass_one_more(bytes, s, max_checks) ==
    LET push(check) ==
            IF ~check.ok THEN [s EXCEPT !.err = check.err]
            ELSE [i |-> check.i, checks |-> Append(s.checks, check.val), err |-> <<>>]
        match(b, opcode) ==
            IF ~opcode.ok THEN [s EXCEPT !.err = <<"UnknownOpcode", b>>]
            ELSE push(decode_check(opcode.val, bytes, s.i + 1))
        try_from(b) == match(b, opcode_try_from(b))
    IN  IF Len(s.err) > 0 \/ ~(s.i < Len(bytes)) THEN s
        ELSE IF Len(s.checks) > max_checks THEN [s EXCEPT !.err = <<"TooManyChecks">>]
        ELSE try_from(ByteVal(At(bytes, s.i + 1)))

\* One pass through the while loop of decode_program_with_limit.  s is the
\* loop's state: the cursor i, the checks pushed, and the error returned
\* (<<>> while there is none).  A loop that has ended stays as it is.
decode_pass(bytes, s, max_checks) ==
    LET push(check) ==
            IF ~check.ok THEN [s EXCEPT !.err = check.err]
            ELSE [i |-> check.i, checks |-> Append(s.checks, check.val), err |-> <<>>]
        match(b, opcode) ==
            IF ~opcode.ok THEN [s EXCEPT !.err = <<"UnknownOpcode", b>>]
            ELSE push(decode_check(opcode.val, bytes, s.i + 1))
        try_from(b) == match(b, opcode_try_from(b))
    IN  IF Len(s.err) > 0 \/ ~(s.i < Len(bytes)) THEN s
        ELSE IF Len(s.checks) >= max_checks THEN [s EXCEPT !.err = <<"TooManyChecks">>]
        ELSE try_from(ByteVal(At(bytes, s.i + 1)))

RECURSIVE decode_loop(_, _, _, _)
\* n passes through the while loop: the first half of them and, unless the
\* loop has ended by then, the rest.
decode_loop(bytes, s, max_checks, n) ==
    IF n = 0 THEN s
    ELSE IF n = 1 THEN decode_pass(bytes, s, max_checks)
    ELSE LET rest(half) ==
                 IF Len(half.err) > 0 \/ ~(half.i < Len(bytes)) THEN half
                 ELSE decode_loop(bytes, half, max_checks, n - (n \div 2))
         IN  rest(decode_loop(bytes, s, max_checks, n \div 2))

\* Every pass consumes at least the opcode byte, so the loop has ended after
\* Len(bytes) passes.
decode_program_with_limit(bytes, max_checks) ==
    LET result(s) ==
            IF Len(s.err) > 0 THEN [ok |-> FALSE, err |-> s.err]
            ELSE [ok |-> TRUE, val |-> s.checks]
    IN  result(decode_loop(bytes, [i |-> 0, checks |-> <<>>, err |-> <<>>], max_checks,
                           Len(bytes)))

decode_program(bytes) == decode_program_with_limit(bytes, MAX_CHECKS_DEFAULT)

(***************************************************************************)
(* The chain outside the policy: what a read-only external call returns.   *)
(* A world is a record: the addresses that hold the StateView, the         *)
(* VTSOrchestrator and the LiquidityHub contracts, the values they report, *)
(* and whether calls revert or return short data.                          *)
(***************************************************************************)
\* selector(sig): the first 4 bytes of keccak256(sig).
selector(sig) == Slice(keccak256_ascii(sig), 0, 4)

\* The ABI word of an int24: sign-extended two's complement.
abi_i24(t) ==
    IF t >= 0 THEN to_be_bytes(t, 32)
    ELSE [i \in 1..29 |-> Lit(255)] \o to_be_bytes(t + 16777216, 3)

abi_bool(b) == to_be_bytes(IF b THEN 1 ELSE 0, 32)

\* The return data of the contract at `target` for `sel`, when the call succeeds.
world_return(world, target, sel) ==
    CASE target = world.state_view /\ sel = selector("getSlot0(bytes32)") ->
            to_be_bytes(world.sqrt_price_x96, 32) \o abi_i24(world.tick)
                \o to_be_bytes(world.protocol_fee, 32) \o to_be_bytes(world.lp_fee, 32)
      [] target = world.vts_orchestrator /\ sel = selector("positionToCheckpoint(bytes32)") ->
            to_be_bytes(world.time_of_last_transition, 32) \o abi_bool(world.is_open)
                \o to_be_bytes(world.grace_extension0, 32)
                \o to_be_bytes(world.grace_extension1, 32)
      [] target = world.vts_orchestrator /\ sel = selector("getPositionSettledAmounts(bytes32)") ->
            to_be_bytes(world.settled0, 32) \o to_be_bytes(world.settled1, 32)
      [] target = world.vts_orchestrator /\ sel = selector("getCommitmentMaxima(bytes32)") ->
            to_be_bytes(world.commitment0, 32) \o to_be_bytes(world.commitment1, 32)
      [] target = world.vts_orchestrator /\ sel = selector("getPosition(bytes32)") ->
            pad_address(world.owner) \o world.pool_id
      [] target = world.vts_orchestrator /\ sel = selector("getPool(bytes32)") ->
            world.pool_id \o Zeros(32) \o Zeros(32)
                \o to_be_bytes(world.grace0, 32) \o Zeros(96)
                \o to_be_bytes(world.grace1, 32) \o Zeros(96)
                \o Zeros(96)
      [] target = world.liquidity_hub /\ sel = selector("reserveOfUnderlying(address)") ->
            to_be_bytes(world.reserve, 32)
      [] target = world.liquidity_hub /\ sel = selector("settleQueue(address,address)") ->
            to_be_bytes(world.queue, 32)
      [] OTHER -> <<>>

\* RawCall::new_static().gas(cap).call(target, data): Ok(return data) or Err.
raw_static_call(world, target, data) ==
    LET returned(out) ==
            [ok |-> TRUE,
             val |-> IF world.short /\ Len(out) > 0 THEN Slice(out, 0, Len(out) - 1)
                     ELSE out]
    IN  IF world.reverts THEN [ok |-> FALSE]
        ELSE returned(world_return(world, target, Slice(data, 0, 4)))

(***************************************************************************)
(* facts/onchain.rs: OnchainFactsProvider.  Every method returns           *)
(* [ok, val | err, calls]: calls is the log of the external calls it       *)
(* issued, each <<target, selector, args>>, after the entry of the method  *)
(* itself, <<"FactsProvider", method, args>>.  A FactsError is             *)
(* <<"ForbiddenCall", target, selector>>, <<"CallFailed">>,                *)
(* <<"MalformedReturn">> or <<"NotImplemented">>.                          *)
(***************************************************************************)
U64_MAX == 2147483647

\* OnchainFactsProvider::new(sources, gas_cap, now).
OnchainFactsProvider_new(sources, gas_cap, now) ==
    [sources |-> sources,
     gas_cap |-> gas_cap,
     now |-> now,
     allowlist |->
        {<<sources.state_view, selector("getSlot0(bytes32)")>>,
         <<sources.vts_orchestrator, selector("positionToCheckpoint(bytes32)")>>,
         <<sources.vts_orchestrator, selector("getPositionSettledAmounts(bytes32)")>>,
         <<sources.vts_orchestrator, selector("getCommitmentMaxima(bytes32)")>>,
         <<sources.vts_orchestrator, selector("getPosition(bytes32)")>>,
         <<sources.vts_orchestrator, selector("getPool(bytes32)")>>,
         <<sources.liquidity_hub, selector("reserveOfUnderlying(address)")>>,
         <<sources.liquidity_hub, selector("settleQueue(address,address)")>>}]

FactsErr(err, calls) == [ok |-> FALSE, err |-> err, calls |-> calls]

FactsOk(val, calls) == [ok |-> TRUE, val |-> val, calls |-> calls]

\* OnchainFactsProvider::staticcall(target, selector, args).
\* A faulty staticcall: the allowlist is not consulted.
staticcall_unguarded(facts, world, target, sel, args) ==
    LET calls == <<<<target, sel, args>>>>
        result(out) ==
            IF ~out.ok THEN FactsErr(<<"CallFailed">>, calls)
            ELSE FactsOk(out.val, calls)
    IN  result(raw_static_call(world, target, sel \o args))

staticcall(facts, world, target, sel, args) ==
    LET calls == <<<<target, sel, args>>>>
        result(out) ==
            IF ~out.ok THEN FactsErr(<<"CallFailed">>, calls)
            ELSE FactsOk(out.val, calls)
    IN  IF <<target, sel>> \notin facts.allowlist
        THEN FactsErr(<<"ForbiddenCall", target, sel>>, <<>>)
        ELSE result(raw_static_call(world, target, sel \o args))

decode_u24(word) ==
    LET b == Slice(word, 29, 32)
    IN  ByteVal(At(b, 1)) * 65536 + ByteVal(At(b, 2)) * 256 + ByteVal(At(b, 3))

decode_i24(word) ==
    LET v == decode_u24(word)
    IN  IF v >= 8388608 THEN v - 16777216 ELSE v

\* The entry of a method of the trait in the log of calls.
asked(method, args) == <<<<"FactsProvider", method, args>>>>

\* MockFactsProvider::new(block_timestamp) of the encoder's facts.rs: it
\* implements block_timestamp alone.
MockFactsProvider_new(block_timestamp) == [block_timestamp |-> block_timestamp]

\* Any other implementer of the trait, a test oracle with pre-populated
\* returns: answers[method] is the Result the method returns, [ok, val] or
\* [ok, err].
TableFactsProvider_new(block_timestamp, answers) == [block_timestamp |-> block_timestamp, answers |-> answers]

\* A fallible method of the trait FactsProvider called on facts.  onchain is
\* what OnchainFactsProvider returns for it; a provider that does not
\* implement the method inherits the default, Err(NotImplemented).
FactsProvider_method(facts, method, args, onchain) ==
    LET answered(r) ==
            IF r.ok THEN FactsOk(r.val, asked(method, args))
            ELSE FactsErr(r.err, asked(method, args))
    IN  IF "sources" \in DOMAIN facts
        THEN [onchain EXCEPT !.calls = asked(method, args) \o @]
        ELSE IF "answers" \in DOMAIN facts THEN answered(facts.answers[method])
        ELSE FactsErr(<<"NotImplemented">>, asked(method, args))

\* FactsProvider::block_timestamp of the provider facts.
block_timestamp(facts) ==
    IF "sources" \in DOMAIN facts THEN facts.now ELSE facts.block_timestamp

get_slot0(facts, world, pool_id) ==
    LET decode(out) ==
            IF ~out.ok THEN out
            ELSE IF Len(out.val) < 32 * 4 THEN FactsErr(<<"MalformedReturn">>, out.calls)
            ELSE FactsOk([sqrt_price_x96 |-> from_be_slice(Slice(out.val, 0, 32)),
                          tick |-> decode_i24(Slice(out.val, 32, 64)),
                          protocol_fee |-> decode_u24(Slice(out.val, 64, 96)),
                          lp_fee |-> decode_u24(Slice(out.val, 96, 128))], out.calls)
    IN  decode(staticcall(facts, world, facts.sources.state_view,
                          selector("getSlot0(bytes32)"), pool_id))

is_rfs_closed(facts, world, position_id) ==
    LET decode(out) ==
            IF ~out.ok THEN out
            ELSE IF Len(out.val) < 32 * 4 THEN FactsErr(<<"MalformedReturn">>, out.calls)
            ELSE LET is_open == from_be_slice(Slice(out.val, 32, 64)) # 0
                 IN  FactsOk(~is_open, out.calls)
    IN  decode(staticcall(facts, world, facts.sources.vts_orchestrator,
                          selector("positionToCheckpoint(bytes32)"), position_id))

queue_amount(facts, world, lcc, owner) ==
    LET args == pad_address(lcc) \o pad_address(owner)
        decode(out) ==
            IF ~out.ok THEN out
            ELSE IF Len(out.val) < 32 THEN FactsErr(<<"MalformedReturn">>, out.calls)
            ELSE FactsOk(from_be_slice(Slice(out.val, 0, 32)), out.calls)
    IN  decode(staticcall(facts, world, facts.sources.liquidity_hub,
                          selector("settleQueue(address,address)"), args))

reserve_of(facts, world, lcc) ==
    LET args == pad_address(lcc)
        decode(out) ==
            IF ~out.ok THEN out
            ELSE IF Len(out.val) < 32 THEN FactsErr(<<"MalformedReturn">>, out.calls)
            ELSE FactsOk(from_be_slice(Slice(out.val, 0, 32)), out.calls)
    IN  decode(staticcall(facts, world, facts.sources.liquidity_hub,
                          selector("reserveOfUnderlying(address)"), args))

get_settled_amounts(facts, world, position_id) ==
    LET decode(out) ==
            IF ~out.ok THEN out
            ELSE IF Len(out.val) < 32 * 2 THEN FactsErr(<<"MalformedReturn">>, out.calls)
            ELSE FactsOk([amount0 |-> from_be_slice(Slice(out.val, 0, 32)),
                          amount1 |-> from_be_slice(Slice(out.val, 32, 64))], out.calls)
    IN  decode(staticcall(facts, world, facts.sources.vts_orchestrator,
                          selector("getPositionSettledAmounts(bytes32)"), position_id))

get_commitment_maxima(facts, world, position_id) ==
    LET decode(out) ==
            IF ~out.ok THEN out
            ELSE IF Len(out.val) < 32 * 2 THEN FactsErr(<<"MalformedReturn">>, out.calls)
            ELSE FactsOk([commitment0 |-> from_be_slice(Slice(out.val, 0, 32)),
                          commitment1 |-> from_be_slice(Slice(out.val, 32, 64))],
                         out.calls)
    IN  decode(staticcall(facts, world, facts.sources.vts_orchestrator,
                          selector("getCommitmentMaxima(bytes32)"), position_id))

\* The largest value of a 32-byte word that a read of the production oracle
\* can hold here; it stands for U256::MAX.
WORD_MAX == 2147483647

\* The + of two U256: the sum modulo u256_max + 1.
u256_wrapping_add(u256_max, a, b) == IF a > u256_max - b THEN a - (u256_max - b) - 1 ELSE a + b

\* The arithmetic of grace_period_remaining on an open checkpoint, lines
\* 259-285, over U256 of maximum u256_max and u64 of maximum u64_max.
grace_remaining(u256_max, u64_max, now_u, time_of_last_transition, grace_extension0, grace_extension1, grace0, grace1) ==
    LET elapsed == IF now_u > time_of_last_transition
                   THEN now_u - time_of_last_transition ELSE 0
        total0 == u256_wrapping_add(u256_max, grace0, grace_extension0)
        total1 == u256_wrapping_add(u256_max, grace1, grace_extension1)
        earliest == IF total0 < total1 THEN total0 ELSE total1
        remaining == IF earliest > elapsed THEN earliest - elapsed ELSE 0
    IN  IF remaining > u64_max THEN u64_max ELSE remaining

grace_period_remaining(facts, world, position_id) ==
    LET vts == facts.sources.vts_orchestrator
        \* From the checkpoint, the position and the pool to the remaining time.
        remaining_of(out, pos_out, pool_out) ==
            LET time_of_last_transition == from_be_slice(Slice(out.val, 0, 32))
                grace_extension0 == from_be_slice(Slice(out.val, 64, 96))
                grace_extension1 == from_be_slice(Slice(out.val, 96, 128))
                grace0 == from_be_slice(Slice(pool_out.val, 32 * 3, 32 * 4))
                grace1 == from_be_slice(Slice(pool_out.val, 32 * 7, 32 * 8))
                calls == out.calls \o pos_out.calls \o pool_out.calls
            IN  FactsOk(grace_remaining(WORD_MAX, U64_MAX, facts.now,
                                        time_of_last_transition, grace_extension0,
                                        grace_extension1, grace0, grace1), calls)
        with_pool(out, pos_out, pool_out) ==
            LET calls == out.calls \o pos_out.calls \o pool_out.calls IN
            IF ~pool_out.ok THEN FactsErr(pool_out.err, calls)
            ELSE IF Len(pool_out.val) < 32 * 14 THEN FactsErr(<<"MalformedReturn">>, calls)
            ELSE remaining_of(out, pos_out, pool_out)
        with_position(out, pos_out) ==
            LET calls == out.calls \o pos_out.calls IN
            IF ~pos_out.ok THEN FactsErr(pos_out.err, calls)
            ELSE IF Len(pos_out.val) < 64 THEN FactsErr(<<"MalformedReturn">>, calls)
            ELSE with_pool(out, pos_out,
                           staticcall(facts, world, vts, selector("getPool(bytes32)"),
                                      Slice(pos_out.val, 32, 64)))
        with_checkpoint(out) ==
            IF ~out.ok THEN out
            ELSE IF Len(out.val) < 32 * 4 THEN FactsErr(<<"MalformedReturn">>, out.calls)
            ELSE IF ~(from_be_slice(Slice(out.val, 32, 64)) # 0)
                 THEN FactsOk(U64_MAX, out.calls)
            ELSE with_position(out,
                               staticcall(facts, world, vts, selector("getPosition(bytes32)"),
                                          position_id))
    IN  with_checkpoint(staticcall(facts, world, vts,
                                   selector("positionToCheckpoint(bytes32)"), position_id))

staticcall_u256(facts, world, target, sel, args) ==
    LET decode(out) ==
            IF ~out.ok THEN out
            ELSE IF Len(out.val) < 32 THEN FactsErr(<<"MalformedReturn">>, out.calls)
            ELSE FactsOk(from_be_slice(Slice(out.val, 0, 32)), out.calls)
    IN  decode(staticcall(facts, world, target, sel, args))

(***************************************************************************)
(* evaluator.rs.  evaluate_program returns [ok, err, index, calls, by]:     *)
(* index is the number of the check that returned the error, calls the log *)
(* of the calls issued up to the point of return and by[i] the number of   *)
(* the check that issued calls[i].                                         *)
(***************************************************************************)
compare(lhs, op, rhs) ==
    CASE op = "Lt" -> lhs < rhs
      [] op = "Lte" -> lhs <= rhs
      [] op = "Gt" -> lhs > rhs
      [] op = "Gte" -> lhs >= rhs
      [] op = "Eq" -> lhs = rhs
      [] op = "Neq" -> lhs # rhs

\* One arm of the match: [ok, err, calls] for a single check.
CheckPass(calls) == [ok |-> TRUE, calls |-> calls]

\* A faulty error: an unsupported check is let through.
CheckFail_unsupported_passes(err, calls) == IF err = "UnsupportedCheck" THEN [ok |-> TRUE, calls |-> calls] ELSE [ok |-> FALSE, err |-> err, calls |-> calls]

\* A faulty error: every failing check reports StaticCallFailed.
CheckFail_uniform(err, calls) == [ok |-> FALSE, err |-> "StaticCallFailed", calls |-> calls]

CheckFail(err, calls) == [ok |-> FALSE, err |-> err, calls |-> calls]

\* A faulty comparison: a remaining time equal to the minimum is too short.
grace_too_short_at(remaining, min_seconds) == remaining # U64_MAX /\ remaining <= min_seconds

\* Line 131: remaining != u64::MAX && remaining < *min_seconds.
grace_too_short(remaining, min_seconds) == remaining # U64_MAX /\ remaining < min_seconds

\* A faulty comparison: the deadline itself counts as expired.
deadline_expired_at(now, deadline) == now >= deadline

\* Line 19: facts.block_timestamp() > *deadline.
deadline_expired(now, deadline) == now > deadline

\* A faulty deficit: the subtraction made whatever the operands, wrapping in
\* the width of U256.
deficit_wrapping(commitment, settled) == (commitment - settled) % (U256_MAX + 1)

\* Lines 104-113: the deficit of one token, commitment - settled when the
\* commitment is the greater and zero otherwise.
deficit(commitment, settled) == IF commitment > settled THEN commitment - settled ELSE 0

evaluate_check(check, facts, world) ==
    LET method(name, args, onchain) == FactsProvider_method(facts, name, args, onchain)
        tick_bounds(slot0) ==
            IF ~slot0.ok THEN CheckFail("TickOutOfBounds", slot0.calls)
            ELSE IF slot0.val.tick < check.min \/ slot0.val.tick > check.max
                 THEN CheckFail("TickOutOfBounds", slot0.calls)
                 ELSE CheckPass(slot0.calls)
        price_bounds(slot0) ==
            IF ~slot0.ok THEN CheckFail("PriceOutOfBounds", slot0.calls)
            ELSE IF slot0.val.sqrt_price_x96 < check.min
                    \/ slot0.val.sqrt_price_x96 > check.max
                 THEN CheckFail("PriceOutOfBounds", slot0.calls)
                 ELSE CheckPass(slot0.calls)
        rfs_closed(closed) ==
            IF ~closed.ok THEN CheckFail("RfsNotClosed", closed.calls)
            ELSE IF ~closed.val THEN CheckFail("RfsNotClosed", closed.calls)
                 ELSE CheckPass(closed.calls)
        queue_lte(queued) ==
            IF ~queued.ok THEN CheckFail("QueueExceeded", queued.calls)
            ELSE IF queued.val > check.max THEN CheckFail("QueueExceeded", queued.calls)
                 ELSE CheckPass(queued.calls)
        reserve_gte(reserve) ==
            IF ~reserve.ok THEN CheckFail("ReserveTooLow", reserve.calls)
            ELSE IF reserve.val < check.min THEN CheckFail("ReserveTooLow", reserve.calls)
                 ELSE CheckPass(reserve.calls)
        settled_gte(settled) ==
            IF ~settled.ok THEN CheckFail("StaticCallFailed", settled.calls)
            ELSE IF settled.val.amount0 < check.min_amount0
                    \/ settled.val.amount1 < check.min_amount1
                 THEN CheckFail("StaticCallFailed", settled.calls)
                 ELSE CheckPass(settled.calls)
        deficit_lte(commitment, settled) ==
            LET calls == commitment.calls \o settled.calls IN
            IF ~settled.ok THEN CheckFail("StaticCallFailed", calls) ELSE
            LET deficit0 == deficit(commitment.val.commitment0, settled.val.amount0)
                deficit1 == deficit(commitment.val.commitment1, settled.val.amount1)
            IN  IF deficit0 > check.max_deficit0 \/ deficit1 > check.max_deficit1
                THEN CheckFail("StaticCallFailed", calls)
                ELSE CheckPass(calls)
        commitment_deficit_lte(commitment) ==
            IF ~commitment.ok THEN CheckFail("StaticCallFailed", commitment.calls)
            ELSE deficit_lte(commitment,
                             method("get_settled_amounts", check.position_id,
                                    get_settled_amounts(facts, world, check.position_id)))
        grace_period_gte(remaining) ==
            IF ~remaining.ok THEN CheckFail("StaticCallFailed", remaining.calls)
            ELSE IF grace_too_short(remaining.val, check.min_seconds)
                 THEN CheckFail("StaticCallFailed", remaining.calls)
                 ELSE CheckPass(remaining.calls)
        static_call_u256(lhs) ==
            IF ~lhs.ok THEN CheckFail("StaticCallFailed", lhs.calls)
            ELSE IF ~compare(lhs.val, check.cmp, check.rhs)
                 THEN CheckFail("StaticCallFailed", lhs.calls)
                 ELSE CheckPass(lhs.calls)
    IN
    CASE check.op = "Deadline" ->
            IF deadline_expired(block_timestamp(facts), check.deadline)
            THEN CheckFail("DeadlineExpired", asked("block_timestamp", <<>>))
            ELSE CheckPass(asked("block_timestamp", <<>>))
      [] check.op = "Nonce" -> CheckPass(<<>>)
      [] check.op = "CallBundleHash" -> CheckPass(<<>>)
      [] check.op = "TokenAmountLte" -> CheckFail("UnsupportedCheck", <<>>)
      [] check.op = "NativeValueLte" -> CheckFail("UnsupportedCheck", <<>>)
      [] check.op = "LiquidityDeltaLte" -> CheckFail("UnsupportedCheck", <<>>)
      [] check.op = "Slot0TickBounds" -> 
            tick_bounds(method("get_slot0", check.pool_id,
                               get_slot0(facts, world, check.pool_id)))
      [] check.op = "Slot0SqrtPriceBounds" ->
            price_bounds(method("get_slot0", check.pool_id,
                                get_slot0(facts, world, check.pool_id)))
      [] check.op = "RfsClosed" ->
            rfs_closed(method("is_rfs_closed", check.position_id,
                              is_rfs_closed(facts, world, check.position_id)))
      [] check.op = "QueueLte" ->
            queue_lte(method("queue_amount", <<check.lcc, check.owner>>,
                             queue_amount(facts, world, check.lcc, check.owner)))
      [] check.op = "ReserveGte" ->
            reserve_gte(method("reserve_of", check.lcc,
                               reserve_of(facts, world, check.lcc)))
      [] check.op = "SettledGte" ->
            settled_gte(method("get_settled_amounts", check.position_id,
                               get_settled_amounts(facts, world, check.position_id)))
      [] check.op = "CommitmentDeficitLte" ->
            commitment_deficit_lte(
                method("get_commitment_maxima", check.position_id,
                       get_commitment_maxima(facts, world, check.position_id)))
      [] check.op = "GracePeriodGte" ->
            grace_period_gte(
                method("grace_period_remaining", check.position_id,
                       grace_period_remaining(facts, world, check.position_id)))
      [] check.op = "StaticCallU256" ->
            static_call_u256(
                method("staticcall_u256", <<check.target, check.selector, check.args>>,
                       staticcall_u256(facts, world, check.target, check.selector,
                                       check.args)))

\* A faulty turn: a Nonce check is held against a nonce of zero.
evaluate_turn_enforces_nonce(checks, k, facts, world, s) ==
    LET next(r) ==
            IF ~r.ok
            THEN [err |-> <<r.err>>, index |-> k, calls |-> s.calls \o r.calls,
                  by |-> s.by \o [i \in 1..Len(r.calls) |-> k]]
            ELSE [s EXCEPT !.calls = s.calls \o r.calls,
                           !.by = s.by \o [i \in 1..Len(r.calls) |-> k]]
    IN  IF Len(s.err) > 0 THEN s
        ELSE IF At(checks, k).op = "Nonce" /\ At(checks, k).expected # 0
             THEN next(CheckFail("NonceMismatch", <<>>))
        ELSE next(evaluate_check(At(checks, k), facts, world))

\* One turn of the for loop of evaluate_program, at check number k
\* (1-based).  s is the loop's state: the error returned (<<>> while there
\* is none), the number of the check that returned it, the calls issued and,
\* for each call, the number of the check that issued it.
evaluate_turn(checks, k, facts, world, s) ==
    LET next(r) ==
            IF ~r.ok
            THEN [err |-> <<r.err>>, index |-> k, calls |-> s.calls \o r.calls,
                  by |-> s.by \o [i \in 1..Len(r.calls) |-> k]]
            ELSE [s EXCEPT !.calls = s.calls \o r.calls,
                           !.by = s.by \o [i \in 1..Len(r.calls) |-> k]]
    IN  IF Len(s.err) > 0 THEN s
        ELSE next(evaluate_check(At(checks, k), facts, world))

RECURSIVE evaluate_loop_eager(_, _, _, _, _, _)
\* A faulty loop: every check is evaluated, and the first error is returned
\* at the end.
evaluate_loop_eager(checks, from, to, facts, world, s) ==
    LET turn(r) ==
            [err |-> IF Len(s.err) = 0 /\ ~r.ok THEN <<r.err>> ELSE s.err,
             index |-> IF Len(s.err) = 0 /\ ~r.ok THEN from ELSE s.index,
             calls |-> s.calls \o r.calls,
             by |-> s.by \o [i \in 1..Len(r.calls) |-> from]]
    IN  IF from > to THEN s
        ELSE evaluate_loop_eager(checks, from + 1, to, facts, world,
                                 turn(evaluate_check(At(checks, from), facts, world)))

RECURSIVE evaluate_loop(_, _, _, _, _, _)
\* The turns for the checks numbered from..to, the first half of them and
\* then the rest.
evaluate_loop(checks, from, to, facts, world, s) ==
    IF from > to THEN s
    ELSE IF from = to THEN evaluate_turn(checks, from, facts, world, s)
    ELSE LET rest(half) ==
                 IF Len(half.err) > 0 THEN half
                 ELSE evaluate_loop(checks, (from + to) \div 2 + 1, to, facts, world, half)
         IN  rest(evaluate_loop(checks, from, (from + to) \div 2, facts, world, s))

evaluate_program(checks, facts, world) ==
    LET result(s) ==
            IF Len(s.err) > 0
            THEN [ok |-> FALSE, err |-> Head(s.err), index |-> s.index, calls |-> s.calls,
                  by |-> s.by]
            ELSE [ok |-> TRUE, calls |-> s.calls, by |-> s.by]
    IN  result(evaluate_loop(checks, 1, Len(checks), facts, world,
                             [err |-> <<>>, index |-> 0, calls |-> <<>>, by |-> <<>>]))

(***************************************************************************)
(* tools/fiet-maker-policy-encoder/src/encoder.rs: the off-chain builder   *)
(* of programs and envelopes.  An IntentEnvelope is a record with the      *)
(* fields of types.rs.                                                     *)
(***************************************************************************)
\* A faulty table: the codes of Lt and Lte exchanged.
comp_op_to_u8_exchanged(op) ==
    CASE op = "Lt" -> 1
      [] op = "Lte" -> 0
      [] op = "Gt" -> 2
      [] op = "Gte" -> 3
      [] op = "Eq" -> 4
      [] op = "Neq" -> 5

comp_op_to_u8(op) ==
    CASE op = "Lt" -> 0
      [] op = "Lte" -> 1
      [] op = "Gt" -> 2
      [] op = "Gte" -> 3
      [] op = "Eq" -> 4
      [] op = "Neq" -> 5

\* The bytes encode_program pushes for one check.
encode_check(check) ==
    CASE check.op = "Deadline" -> <<Lit(1)>> \o to_be_bytes(check.deadline, 8)
      [] check.op = "Nonce" -> <<Lit(2)>> \o to_be_bytes(check.expected, 32)
      [] check.op = "CallBundleHash" -> <<Lit(3)>> \o check.hash
      [] check.op = "TokenAmountLte" ->
            <<Lit(17)>> \o address_as_slice(check.token) \o to_be_bytes(check.max, 32)
      [] check.op = "NativeValueLte" -> <<Lit(18)>> \o to_be_bytes(check.max, 32)
      [] check.op = "LiquidityDeltaLte" -> <<Lit(19)>> \o to_be_bytes(check.max, 16)
      [] check.op = "Slot0TickBounds" ->
            <<Lit(32)>> \o check.pool_id \o i32_to_be_bytes(check.min)
                \o i32_to_be_bytes(check.max)
      [] check.op = "Slot0SqrtPriceBounds" ->
            <<Lit(33)>> \o check.pool_id \o to_be_bytes(check.min, 32)
                \o to_be_bytes(check.max, 32)
      [] check.op = "RfsClosed" -> <<Lit(48)>> \o check.position_id
      [] check.op = "QueueLte" ->
            <<Lit(49)>> \o address_as_slice(check.lcc) \o address_as_slice(check.owner)
                \o to_be_bytes(check.max, 32)
      [] check.op = "ReserveGte" ->
            <<Lit(50)>> \o address_as_slice(check.lcc) \o to_be_bytes(check.min, 32)
      [] check.op = "SettledGte" ->
            <<Lit(51)>> \o check.position_id \o to_be_bytes(check.min_amount0, 32)
                \o to_be_bytes(check.min_amount1, 32)
      [] check.op = "CommitmentDeficitLte" ->
            <<Lit(52)>> \o check.position_id \o to_be_bytes(check.max_deficit0, 32)
                \o to_be_bytes(check.max_deficit1, 32)
      [] check.op = "GracePeriodGte" ->
            <<Lit(53)>> \o check.position_id \o to_be_bytes(check.min_seconds, 8)
      [] check.op = "StaticCallU256" ->
            <<Lit(240)>> \o address_as_slice(check.target) \o check.selector
                \o to_be_bytes(Len(check.args), 2) \o check.args
                \o <<Lit(comp_op_to_u8(check.cmp))>> \o to_be_bytes(check.rhs, 32)

RECURSIVE encode_program(_)
encode_program(checks) ==
    IF Len(checks) = 0 THEN <<>>
    ELSE IF Len(checks) = 1 THEN encode_check(Head(checks))
    ELSE encode_program(SubSeq(checks, 1, Len(checks) \div 2))
            \o encode_program(SubSeq(checks, Len(checks) \div 2 + 1, Len(checks)))

\* policy_intent_digest(envelope) of the encoder: the same digest as on chain.
encoder_policy_intent_digest(envelope) ==
    policy_intent_digest(envelope.domain_chain_id, envelope.domain_verifying_contract,
                         envelope.wallet, envelope.permission_id, envelope.nonce,
                         envelope.deadline, envelope.call_bundle_hash,
                         envelope.program_bytes)

\* signing_key.sign(msg) of k256: the message is hashed with SHA-256 and the
\* hash is signed; the recovery id y is the curve's choice.
ecdsa_sign(signing_key, msg, y) ==
    <<signing_key, WordId(hash_bytes("sha256", msg)), y>>

\* sign_envelope(envelope, signing_key): r || s || 27.
sign_envelope(envelope, signing_key, y) ==
    [envelope EXCEPT !.signature =
        signature_rs(ecdsa_sign(signing_key, encoder_policy_intent_digest(envelope), y))
            \o <<Lit(27)>>]

\* encode_envelope(envelope): the wire bytes of the policy signature slice.
encode_envelope(envelope) ==
    to_be_bytes(envelope.version, 2)
        \o to_be_bytes(envelope.nonce, 32)
        \o to_be_bytes(envelope.deadline, 8)
        \o envelope.call_bundle_hash
        \o to_be_bytes(Len(envelope.program_bytes), 4)
        \o envelope.program_bytes
        \o to_be_bytes(Len(envelope.signature), 2)
        \o envelope.signature

(***************************************************************************)
(* kernel/constants.rs                                                     *)
(***************************************************************************)
MODULE_TYPE_POLICY == 5

POLICY_SUCCESS_UINT == 0

POLICY_FAILED_UINT == 1

(***************************************************************************)
(* intent_policy.rs: the storage of IntentPolicy.                          *)
(*                                                                         *)
(* A Solidity mapping is a function on the keys that hold a non-zero       *)
(* value; every other key reads as zero.  A bytes32 key that is a hash is  *)
(* entered under the name of the hash.  The storage st is the record of    *)
(* the six mappings.                                                       *)
(***************************************************************************)
map_get(m, k) == IF k \in DOMAIN m THEN m[k] ELSE 0

map_insert(m, k, v) ==
    IF v = 0 THEN [x \in DOMAIN m \ {k} |-> m[x]]
    ELSE [x \in DOMAIN m \cup {k} |-> IF x = k THEN v ELSE m[x]]

\* get and insert of a mapping(bytes32 => ...).
map_get_b32(m, k) == map_get(m, WordId(k))

map_insert_b32(m, k, v) == map_insert(m, WordId(k), v)

\* A faulty saturating_add: the sum wraps around at U256::MAX.
wrapping_add(a, b) == (a + b) % (U256_MAX + 1)

\* U256::saturating_add and U256::saturating_sub.
saturating_add(a, b) == IF a + b > U256_MAX THEN U256_MAX ELSE a + b

saturating_sub(a, b) == IF a < b THEN 0 ELSE a - b

\* IntentPolicy::_is_installed_key.
is_installed_key(st, key) == map_get_b32(st.state_view_of, key) # ADDRESS_ZERO

\* A call that reverts (a panic, or an Err the entry point turns into a
\* revert) leaves the storage as it was.
Reverted(st, why) == [st |-> st, ret |-> <<"revert", why>>]

\* A faulty install_writes: the wallet's used_ids is not counted up.
install_writes_uncounted(st, wallet, key, signer, state_view, vts_orchestrator, liquidity_hub) ==
    [used_ids |-> st.used_ids,
     nonce_of |-> map_insert_b32(st.nonce_of, key, 0),
     signer_of |-> map_insert_b32(st.signer_of, key, signer),
     state_view_of |-> map_insert_b32(st.state_view_of, key, state_view),
     vts_orchestrator_of |-> map_insert_b32(st.vts_orchestrator_of, key, vts_orchestrator),
     liquidity_hub_of |-> map_insert_b32(st.liquidity_hub_of, key, liquidity_hub)]

\* The writes of on_install, lines 116-121.
install_writes(st, wallet, key, signer, state_view, vts_orchestrator, liquidity_hub) ==
    [used_ids |-> map_insert(st.used_ids, wallet,
                             saturating_add(map_get(st.used_ids, wallet), 1)),
     nonce_of |-> map_insert_b32(st.nonce_of, key, 0),
     signer_of |-> map_insert_b32(st.signer_of, key, signer),
     state_view_of |-> map_insert_b32(st.state_view_of, key, state_view),
     vts_orchestrator_of |-> map_insert_b32(st.vts_orchestrator_of, key, vts_orchestrator),
     liquidity_hub_of |-> map_insert_b32(st.liquidity_hub_of, key, liquidity_hub)]

\* A faulty on_install: the signer is not required to be non-zero.
on_install_any_signer(st, msg_sender, data) ==
    LET wallet == msg_sender
        split == split_policy_install_data(data)
    IN
    IF ~split.ok THEN Reverted(st, "Invalid init data") ELSE
    LET permission_id == split.permission_id
        init_data == split.init_data
        key == composite_key(wallet, permission_id)
    IN
    IF is_installed_key(st, key) THEN Reverted(st, "AlreadyInitialized") ELSE
    IF Len(init_data) # 1 + 20 + 20 + 20 + 20
    THEN Reverted(st, "Invalid init data length") ELSE
    LET version == ByteVal(At(init_data, 1)) IN
    IF version # 1 THEN Reverted(st, "Unsupported init version") ELSE
    LET signer == address_from_slice(Slice(init_data, 1, 21))
        state_view == address_from_slice(Slice(init_data, 21, 41))
        vts_orchestrator == address_from_slice(Slice(init_data, 41, 61))
        liquidity_hub == address_from_slice(Slice(init_data, 61, 81))
    IN
    IF state_view = ADDRESS_ZERO \/ vts_orchestrator = ADDRESS_ZERO
        \/ liquidity_hub = ADDRESS_ZERO
    THEN Reverted(st, "Invalid fact sources") ELSE
    [st |-> install_writes(st, wallet, key, signer, state_view, vts_orchestrator,
                           liquidity_hub),
     ret |-> <<"ok">>]

\* IntentPolicy::on_install(data), called by msg_sender.
on_install(st, msg_sender, data) ==
    LET wallet == msg_sender
        split == split_policy_install_data(data)
    IN
    IF ~split.ok THEN Reverted(st, "Invalid init data") ELSE
    LET permission_id == split.permission_id
        init_data == split.init_data
        key == composite_key(wallet, permission_id)
    IN
    IF is_installed_key(st, key) THEN Reverted(st, "AlreadyInitialized") ELSE
    IF Len(init_data) # 1 + 20 + 20 + 20 + 20
    THEN Reverted(st, "Invalid init data length") ELSE
    LET version == ByteVal(At(init_data, 1)) IN
    IF version # 1 THEN Reverted(st, "Unsupported init version") ELSE
    LET signer == address_from_slice(Slice(init_data, 1, 21))
        state_view == address_from_slice(Slice(init_data, 21, 41))
        vts_orchestrator == address_from_slice(Slice(init_data, 41, 61))
        liquidity_hub == address_from_slice(Slice(init_data, 61, 81))
    IN
    IF signer = ADDRESS_ZERO THEN Reverted(st, "Invalid signer") ELSE
    IF state_view = ADDRESS_ZERO \/ vts_orchestrator = ADDRESS_ZERO
        \/ liquidity_hub = ADDRESS_ZERO
    THEN Reverted(st, "Invalid fact sources") ELSE
    [st |-> install_writes(st, wallet, key, signer, state_view, vts_orchestrator,
                           liquidity_hub),
     ret |-> <<"ok">>]

\* A faulty uninstall_writes: the signer of the key is left in place.
uninstall_writes_keeps_signer(st, wallet, key) ==
    [used_ids |-> map_insert(st.used_ids, wallet,
                             saturating_sub(map_get(st.used_ids, wallet), 1)),
     nonce_of |-> map_insert_b32(st.nonce_of, key, 0),
     signer_of |-> st.signer_of,
     state_view_of |-> map_insert_b32(st.state_view_of, key, ADDRESS_ZERO),
     vts_orchestrator_of |-> map_insert_b32(st.vts_orchestrator_of, key, ADDRESS_ZERO),
     liquidity_hub_of |-> map_insert_b32(st.liquidity_hub_of, key, ADDRESS_ZERO)]

\* The writes of on_uninstall, lines 140-145.
uninstall_writes(st, wallet, key) ==
    [used_ids |-> map_insert(st.used_ids, wallet,
                             saturating_sub(map_get(st.used_ids, wallet), 1)),
     nonce_of |-> map_insert_b32(st.nonce_of, key, 0),
     signer_of |-> map_insert_b32(st.signer_of, key, ADDRESS_ZERO),
     state_view_of |-> map_insert_b32(st.state_view_of, key, ADDRESS_ZERO),
     vts_orchestrator_of |-> map_insert_b32(st.vts_orchestrator_of, key, ADDRESS_ZERO),
     liquidity_hub_of |-> map_insert_b32(st.liquidity_hub_of, key, ADDRESS_ZERO)]

\* A faulty on_uninstall: the key is not checked to be installed.
on_uninstall_unchecked(st, msg_sender, data) ==
    LET wallet == msg_sender
        split == split_policy_install_data(data)
    IN
    IF ~split.ok THEN Reverted(st, "Invalid uninstall data") ELSE
    LET key == composite_key(wallet, split.permission_id) IN
    [st |-> uninstall_writes(st, wallet, key), ret |-> <<"ok">>]

\* IntentPolicy::on_uninstall(data), called by msg_sender.
on_uninstall(st, msg_sender, data) ==
    LET wallet == msg_sender
        split == split_policy_install_data(data)
    IN
    IF ~split.ok THEN Reverted(st, "Invalid uninstall data") ELSE
    LET key == composite_key(wallet, split.permission_id) IN
    IF ~is_installed_key(st, key) THEN Reverted(st, "NotInitialized") ELSE
    [st |-> uninstall_writes(st, wallet, key), ret |-> <<"ok">>]

\* IntentPolicy::is_module_type and IntentPolicy::is_initialized.
is_module_type(module_type_id) == module_type_id = MODULE_TYPE_POLICY

is_initialized(st, wallet) == map_get(st.used_ids, wallet) # 0

(***************************************************************************)
(* intent_policy.rs: check_user_op_policy.                                 *)
(*                                                                         *)
(* The body is a straight line of steps, each of which either returns      *)
(* POLICY_FAILED_UINT or falls through to the next.  The model keeps the   *)
(* steps as operators on a context c (the locals of the function, with     *)
(* c.ok = FALSE once a step has returned), run in the order of StepOrder.  *)
(* c.trace lists the steps entered and c.calls the external calls made:    *)
(* <<"ecrecover", v>> for the precompile, <<target, selector, args>> for   *)
(* a fact source.  vm is the host: msg_sender, block_timestamp, chain_id,  *)
(* contract_address and the world the static calls read.                   *)
(***************************************************************************)
Return(c) == [c EXCEPT !.ok = FALSE]

\* Lines 185-188.
step_installed(c, st) ==
    IF ~is_installed_key(st, c.key) THEN Return(c) ELSE c

\* Lines 202-205.
step_parse(c, policy_sig_bytes) ==
    LET parsed(env) == IF ~env.ok THEN Return(c) ELSE [c EXCEPT !.env = env.val]
    IN  parsed(parse_policy_envelope(policy_sig_bytes))

\* Lines 207-209.
step_version(c) == IF c.env.version # 1 THEN Return(c) ELSE c

\* A faulty step_deadline: the deadline is not compared.
step_deadline_unchecked(c, vm) == c

\* Lines 210-212.
step_deadline(c, vm) ==
    IF vm.block_timestamp > c.env.deadline THEN Return(c) ELSE c

\* Lines 215-218.
step_bundle_hash(c, call_data) ==
    LET computed_bundle_hash == keccak256(call_data)
    IN  IF computed_bundle_hash # c.env.call_bundle_hash THEN Return(c) ELSE c

\* A faulty step_nonce: the stored nonce is read but not compared.
step_nonce_unchecked(c, st) ==
    [c EXCEPT !.expected_nonce = map_get_b32(st.nonce_of, c.key)]

\* Lines 221-224.
step_nonce(c, st) ==
    LET expected_nonce == map_get_b32(st.nonce_of, c.key)
    IN  IF c.env.nonce # expected_nonce THEN Return(c)
        ELSE [c EXCEPT !.expected_nonce = expected_nonce]

\* A faulty step_signer: any address that recovers is accepted.
step_signer_any_recovered(c, st, vm, permission_id) ==
    LET expected_signer == map_get_b32(st.signer_of, c.key)
        digest == policy_intent_digest(vm.chain_id, vm.contract_address, vm.msg_sender,
                                       permission_id, c.env.nonce, c.env.deadline,
                                       c.env.call_bundle_hash, c.env.program_bytes)
        match(recovered) ==
            IF ~recovered.ok THEN Return([c EXCEPT !.calls = c.calls \o recovered.calls])
            ELSE [c EXCEPT !.calls = c.calls \o recovered.calls]
    IN  IF expected_signer = ADDRESS_ZERO THEN Return(c)
        ELSE match(ecrecover_address(digest, c.env.signature))

\* Lines 231-251.
step_signer(c, st, vm, permission_id) ==
    LET expected_signer == map_get_b32(st.signer_of, c.key)
        digest == policy_intent_digest(vm.chain_id, vm.contract_address, vm.msg_sender,
                                       permission_id, c.env.nonce, c.env.deadline,
                                       c.env.call_bundle_hash, c.env.program_bytes)
        match(recovered) ==
            IF ~recovered.ok THEN Return([c EXCEPT !.calls = c.calls \o recovered.calls])
            ELSE IF recovered.val # expected_signer
                 THEN Return([c EXCEPT !.calls = c.calls \o recovered.calls])
                 ELSE [c EXCEPT !.calls = c.calls \o recovered.calls]
    IN  IF expected_signer = ADDRESS_ZERO THEN Return(c)
        ELSE match(ecrecover_address(digest, c.env.signature))

\* Lines 254-257.
step_decode(c) ==
    LET decoded(checks) == IF ~checks.ok THEN Return(c) ELSE [c EXCEPT !.checks = checks.val]
    IN  decoded(decode_program(c.env.program_bytes))

\* Lines 259-269.
step_sources(c, st) ==
    LET sources == [state_view |-> map_get_b32(st.state_view_of, c.key),
                    vts_orchestrator |-> map_get_b32(st.vts_orchestrator_of, c.key),
                    liquidity_hub |-> map_get_b32(st.liquidity_hub_of, c.key)]
    IN  IF sources.state_view = ADDRESS_ZERO \/ sources.vts_orchestrator = ADDRESS_ZERO
            \/ sources.liquidity_hub = ADDRESS_ZERO
        THEN Return(c)
        ELSE [c EXCEPT !.sources = sources]

\* Lines 271-275.
step_evaluate(c, vm) ==
    LET facts == OnchainFactsProvider_new(c.sources, 200000, vm.block_timestamp)
        evaluated(ok) ==
            IF ~ok.ok THEN Return([c EXCEPT !.calls = c.calls \o ok.calls])
            ELSE [c EXCEPT !.calls = c.calls \o ok.calls]
    IN  evaluated(evaluate_program(c.checks, facts, vm.world))

\* A faulty order: the signer is recovered before the bundle hash is compared.
StepOrder_signer_first ==
    <<"installed", "parse", "version", "deadline", "signer", "bundle_hash", "nonce",
      "decode", "sources", "evaluate">>

\* The order in which the body runs its steps.
StepOrder ==
    <<"installed", "parse", "version", "deadline", "bundle_hash", "nonce", "signer",
      "decode", "sources", "evaluate">>

policy_step(name, c0, st, vm, permission_id, call_data, policy_sig_bytes) ==
    LET c == [c0 EXCEPT !.trace = Append(c0.trace, name)]
    IN  CASE name = "installed" -> step_installed(c, st)
          [] name = "parse" -> step_parse(c, policy_sig_bytes)
          [] name = "version" -> step_version(c)
          [] name = "deadline" -> step_deadline(c, vm)
          [] name = "bundle_hash" -> step_bundle_hash(c, call_data)
          [] name = "nonce" -> step_nonce(c, st)
          [] name = "signer" -> step_signer(c, st, vm, permission_id)
          [] name = "decode" -> step_decode(c)
          [] name = "sources" -> step_sources(c, st)
          [] name = "evaluate" -> step_evaluate(c, vm)

\* The body runs the ten steps in order, and returns at the first that
\* fails.
run_steps(steps, c0, st, vm, permission_id, call_data, policy_sig_bytes) ==
    LET step(k, c) ==
            IF ~c.ok THEN c
            ELSE policy_step(At(steps, k), c, st, vm, permission_id, call_data,
                             policy_sig_bytes)
        after[k \in 0..Len(steps)] == IF k = 0 THEN c0 ELSE step(k, after[k - 1])
    IN  after[Len(steps)]

\* A faulty policy_return: the nonce is consumed on reject as well.
policy_return_consumes_always(c, st) ==
    [st |-> [st EXCEPT !.nonce_of =
                map_insert_b32(st.nonce_of, c.key, saturating_add(c.expected_nonce, 1))],
     ret |-> IF c.ok THEN POLICY_SUCCESS_UINT ELSE POLICY_FAILED_UINT,
     trace |-> c.trace, calls |-> c.calls]

\* Lines 277-281 on success, and the value returned on either path.
policy_return(c, st) ==
    IF c.ok
    THEN [st |-> [st EXCEPT !.nonce_of =
                     map_insert_b32(st.nonce_of, c.key, saturating_add(c.expected_nonce, 1))],
          ret |-> POLICY_SUCCESS_UINT, trace |-> c.trace, calls |-> c.calls]
    ELSE [st |-> st, ret |-> POLICY_FAILED_UINT, trace |-> c.trace, calls |-> c.calls]

\* IntentPolicy::check_user_op_policy(permission_id, user_op): user_op is the
\* record of the two fields the body reads, call_data and signature.
check_user_op_policy(st, vm, permission_id, user_op) ==
    LET wallet == vm.msg_sender
        c0 == [ok |-> TRUE, trace |-> <<>>, calls |-> <<>>,
               key |-> composite_key(wallet, permission_id),
               env |-> <<>>, expected_nonce |-> 0, checks |-> <<>>, sources |-> <<>>]
    IN  policy_return(run_steps(StepOrder, c0, st, vm, permission_id, user_op.call_data,
                                user_op.signature), st)

\* A faulty check_signature_policy: an empty signature fails.
check_signature_policy_needs_sig(st, permission_id, sender, hash, sig) ==
    [st |-> st, ret |-> IF Len(sig) = 0 THEN POLICY_FAILED_UINT ELSE POLICY_SUCCESS_UINT]

\* IntentPolicy::check_signature_policy(permission_id, sender, hash, sig).
check_signature_policy(st, permission_id, sender, hash, sig) ==
    [st |-> st, ret |-> POLICY_SUCCESS_UINT]

(***************************************************************************)
(* The environment: one deployment of the policy, the wallets that call    *)
(* it, the keys that sign, the fact sources, and the requests they make.   *)
(* A request is a small record; the bytes the contract receives are built  *)
(* from it with the encoder.                                               *)
(***************************************************************************)
Deployment == [chain_id |-> 42161, contract_address |-> 204]

Elsewhere == [chain_id |-> 1, contract_address |-> 205]

\* The configured signer of every installation, and another key holder.
Actors == [signer |-> 177, attacker |-> 178]

Sources == [state_view |-> 209, vts_orchestrator |-> 210, liquidity_hub |-> 211]

Clock == [now |-> 1000, deadline |-> 1010]

\* The (wallet, permission id) pairs that get installed: two permissions of
\* one wallet.  KeyC, of another wallet, never is.
KeyA == [wallet |-> 161, pid |-> 17]

KeyB == [wallet |-> 161, pid |-> 34]

KeyC == [wallet |-> 162, pid |-> 17]

InstalledKeys == {KeyA, KeyB}

\* A bytes32 filled with the byte n.
b32(n) == [i \in 1..32 |-> Lit(n)]

call_data_of(call) == LitBytes(<<184, 97, call, 0>>)

World(name) ==
    [state_view |-> Sources.state_view,
     vts_orchestrator |-> Sources.vts_orchestrator,
     liquidity_hub |-> Sources.liquidity_hub,
     reverts |-> name = "revert",
     short |-> name = "short",
     sqrt_price_x96 |-> 5, tick |-> -3, protocol_fee |-> 0, lp_fee |-> 3000,
     time_of_last_transition |-> 990, is_open |-> name = "open",
     grace_extension0 |-> 0, grace_extension1 |-> 30,
     settled0 |-> 4, settled1 |-> 6, commitment0 |-> 5, commitment1 |-> 6,
     owner |-> KeyA.wallet, pool_id |-> b32(85), grace0 |-> 60, grace1 |-> 120,
     reserve |-> 7, queue |-> 2]

Repeat(x, n) == [k \in 1..n |-> x]

\* The programs that requests carry, by name.
Program(name) ==
    LET deadline == [op |-> "Deadline", deadline |-> Clock.deadline]
        closed == [op |-> "RfsClosed", position_id |-> b32(119)]
    IN
    CASE name = "guarded" -> encode_program(<<deadline, closed>>)
      [] name = "empty" -> <<>>
      [] name = "unsupported" ->
            encode_program(<<deadline, [op |-> "NativeValueLte", max |-> 1]>>)
      [] name = "expired_check" ->
            encode_program(<<[op |-> "Deadline", deadline |-> Clock.now - 1], closed>>)
      [] name = "reserve" ->
            encode_program(<<[op |-> "StaticCallU256", target |-> Sources.liquidity_hub,
                              selector |-> selector("reserveOfUnderlying(address)"),
                              args |-> pad_address(77), cmp |-> "Gte", rhs |-> 7]>>)
      [] name = "forbidden_call" ->
            encode_program(<<[op |-> "StaticCallU256", target |-> Elsewhere.contract_address,
                              selector |-> selector("reserveOfUnderlying(address)"),
                              args |-> pad_address(77), cmp |-> "Gte", rhs |-> 0]>>)
      [] name = "unknown_opcode" -> encode_program(<<deadline>>) \o <<Lit(255)>>
      [] name = "truncated" ->
            LET whole == encode_program(<<deadline, closed>>)
            IN  SubSeq(whole, 1, Len(whole) - 1)
      [] name = "max_checks" -> encode_program(Repeat(deadline, MAX_CHECKS_DEFAULT))
      [] name = "too_many" -> encode_program(Repeat(deadline, MAX_CHECKS_DEFAULT + 1))

\* The last byte of a byte string changed.
flip_last_byte(bytes) ==
    SubSeq(bytes, 1, Len(bytes) - 1)
        \o <<Lit((ByteVal(At(bytes, Len(bytes))) + 1) % 256)>>

\* The envelope a key holder signs for an intent: the key intent.key signs
\* the digest of the intent's fields, as a wallet signs a hash, and the
\* signature goes out as r || s || 27.
SignedEnvelope(intent) ==
    LET signed(envelope) ==
            [envelope EXCEPT !.signature =
                signature_rs(<<intent.key,
                               WordId(encoder_policy_intent_digest(envelope)),
                               intent.y>>)
                    \o <<Lit(27)>>]
    IN  signed([version |-> intent.version,
                nonce |-> intent.nonce,
                deadline |-> intent.deadline,
                call_bundle_hash |-> keccak256(call_data_of(intent.call)),
                program_bytes |-> Program(intent.program),
                signature |-> <<>>,
                domain_chain_id |-> intent.chain_id,
                domain_verifying_contract |-> intent.contract,
                wallet |-> intent.wallet,
                permission_id |-> b32(intent.pid)])

\* The envelope as presented: the signed one, with the v byte the submitter
\* chose and whatever the submitter changed after signing.
PresentedEnvelope(req) ==
    LET present(signed) ==
            [signed EXCEPT
                !.program_bytes =
                    IF req.wire = "flip_program_byte"
                    THEN flip_last_byte(signed.program_bytes)
                    ELSE signed.program_bytes,
                !.signature =
                    CASE req.wire = "sig_len_64" -> SubSeq(signed.signature, 1, 64)
                      [] req.wire = "zero_signature" -> Zeros(64) \o <<Lit(req.v)>>
                      [] OTHER -> SubSeq(signed.signature, 1, 64) \o <<Lit(req.v)>>]
    IN  present(SignedEnvelope(req.intent))

\* The policy signature slice of the user operation.
Wire(req) ==
    LET cut(bytes) ==
            CASE req.wire = "cut" -> SubSeq(bytes, 1, Len(bytes) - 1)
              [] req.wire = "trailing" -> bytes \o <<Lit(0)>>
              [] req.wire = "stub" -> SubSeq(bytes, 1, 79)
              [] OTHER -> bytes
    IN  cut(encode_envelope(PresentedEnvelope(req)))

vm_of(req) ==
    [msg_sender |-> req.wallet,
     block_timestamp |-> req.now,
     chain_id |-> Deployment.chain_id,
     contract_address |-> Deployment.contract_address,
     world |-> World(req.world)]

\* The request of a wallet that submits, unchanged and in time, the intent
\* its configured signer signed for it at nonce n.
GoodRequest(k, n) ==
    [wallet |-> k.wallet, pid |-> k.pid,
     intent |-> [version |-> 1, nonce |-> n, deadline |-> Clock.deadline, call |-> 1,
                 program |-> "guarded", key |-> Actors.signer,
                 chain_id |-> Deployment.chain_id,
                 contract |-> Deployment.contract_address,
                 wallet |-> k.wallet, pid |-> k.pid, y |-> 0],
     v |-> 27, call |-> 1, wire |-> "as_signed", now |-> Clock.now, world |-> "closed"]

\* The requests that differ from the good request b in one respect.
Deviations(b) ==
    {[b EXCEPT !.v = v] : v \in {0, 1, 28, 99}}
    \cup {[b EXCEPT !.intent.y = 1, !.v = v] : v \in {1, 27, 28, 99}}
    \cup {[b EXCEPT !.intent.version = 2],
          [b EXCEPT !.intent.deadline = Clock.now - 1],
          [b EXCEPT !.now = Clock.deadline],
          [b EXCEPT !.now = Clock.deadline + 1],
          [b EXCEPT !.call = 2],
          [b EXCEPT !.intent.key = Actors.attacker],
          [b EXCEPT !.intent.wallet = KeyC.wallet],
          [b EXCEPT !.intent.pid = KeyB.pid],
          [b EXCEPT !.intent.chain_id = Elsewhere.chain_id],
          [b EXCEPT !.intent.contract = Elsewhere.contract_address]}
    \cup {[b EXCEPT !.wire = w] :
            w \in {"flip_program_byte", "cut", "trailing", "stub", "sig_len_64",
                   "zero_signature"}}
    \cup {[b EXCEPT !.intent.program = p] :
            p \in {"empty", "unsupported", "expired_check", "reserve", "forbidden_call",
                   "unknown_opcode", "truncated", "max_checks", "too_many"}}
    \cup {[b EXCEPT !.intent.program = "reserve", !.world = w] : w \in {"revert", "short"}}
    \cup {[b EXCEPT !.world = w] : w \in {"open", "revert", "short"}}

\* The request that presents under key k the intent signed for key j.
Transplant(j, k, n) ==
    [GoodRequest(j, n) EXCEPT !.wallet = k.wallet, !.pid = k.pid]

\* The data of on_install and on_uninstall: permissionId || initData.
init_data_of(version, signer, sources) ==
    <<Lit(version)>> \o address_as_slice(signer) \o address_as_slice(sources.state_view)
        \o address_as_slice(sources.vts_orchestrator)
        \o address_as_slice(sources.liquidity_hub)

install_data_of(req) ==
    LET pid == b32(req.pid) IN
    CASE req.form = "valid" -> pid \o init_data_of(1, Actors.signer, Sources)
      [] req.form = "short" -> SubSeq(pid, 1, 31)
      [] req.form = "bad_length" ->
            pid \o init_data_of(1, Actors.signer, Sources) \o <<Lit(0)>>
      [] req.form = "version_2" -> pid \o init_data_of(2, Actors.signer, Sources)
      [] req.form = "zero_signer" -> pid \o init_data_of(1, ADDRESS_ZERO, Sources)
      [] req.form = "zero_state_view" ->
            pid \o init_data_of(1, Actors.signer,
                                [Sources EXCEPT !.state_view = ADDRESS_ZERO])
      [] req.form = "zero_vts_orchestrator" ->
            pid \o init_data_of(1, Actors.signer,
                                [Sources EXCEPT !.vts_orchestrator = ADDRESS_ZERO])
      [] req.form = "zero_liquidity_hub" ->
            pid \o init_data_of(1, Actors.signer,
                                [Sources EXCEPT !.liquidity_hub = ADDRESS_ZERO])
      [] req.form = "bare" -> pid

InstallRequests ==
    {[wallet |-> k.wallet, pid |-> k.pid, form |-> "valid"] : k \in InstalledKeys}
    \cup {[wallet |-> KeyA.wallet, pid |-> KeyA.pid, form |-> f] :
            f \in {"short", "bad_length", "version_2", "zero_signer", "zero_state_view",
                   "zero_vts_orchestrator", "zero_liquidity_hub"}}

UninstallRequests ==
    {[wallet |-> k.wallet, pid |-> k.pid, form |-> "bare"] : k \in InstalledKeys \cup {KeyC}}
    \cup {[wallet |-> KeyA.wallet, pid |-> KeyA.pid, form |-> f] : f \in {"valid", "short"}}

SignatureRequests ==
    {[wallet |-> k.wallet, pid |-> k.pid, sender |-> a, hash |-> b32(0), sig |-> sig] :
        k \in {KeyA, KeyC}, a \in {Actors.signer, Actors.attacker},
        sig \in {<<>>, Zeros(65)}}

\* A request without the moment and the world it is made in: the envelope,
\* the call data and the key it is presented under.
Submission(req) == [req EXCEPT !.now = 0, !.world = ""]

\* The good requests of every key at every nonce.
GoodRequests ==
    {GoodRequest(k, n) : k \in InstalledKeys \cup {KeyC}, n \in 0..U256_MAX}

\* The check requests: the good requests, for KeyA every deviation from a
\* good request, and the intents of KeyA presented under KeyB.
CheckRequests ==
    GoodRequests
    \cup UNION {Deviations(GoodRequest(KeyA, n)) : n \in 0..U256_MAX}
    \cup {Transplant(KeyA, KeyB, n) : n \in 0..U256_MAX}

\* The policy signature slice of every check request.
WireOf == [req \in {Submission(r) : r \in CheckRequests} |-> Wire(req)]

\* The two fields of the user operation that the policy reads.
user_op_of(req) ==
    [call_data |-> call_data_of(req.call), signature |-> WireOf[Submission(req)]]

(***************************************************************************)
(* The state: the six mappings of the contract, and two history variables. *)
(* last records the latest call: the operation, the request, what it       *)
(* returned, the steps it entered, the external calls it made, the stored  *)
(* fields of its key before it ran (pre), and whether it resubmitted the   *)
(* request that the call before it admitted (replay).  admitted counts,    *)
(* per envelope and key, the admissions so far (kept by SpecReplay only).  *)
(***************************************************************************)
VARIABLES used_ids, nonce_of, signer_of, state_view_of, vts_orchestrator_of,
          liquidity_hub_of, last, admitted

storage_vars ==
    <<used_ids, nonce_of, signer_of, state_view_of, vts_orchestrator_of, liquidity_hub_of>>

vars == <<storage_vars, last, admitted>>

Storage ==
    [used_ids |-> used_ids, nonce_of |-> nonce_of, signer_of |-> signer_of,
     state_view_of |-> state_view_of, vts_orchestrator_of |-> vts_orchestrator_of,
     liquidity_hub_of |-> liquidity_hub_of]

SetStorage(st) ==
    /\ used_ids' = st.used_ids
    /\ nonce_of' = st.nonce_of
    /\ signer_of' = st.signer_of
    /\ state_view_of' = st.state_view_of
    /\ vts_orchestrator_of' = st.vts_orchestrator_of
    /\ liquidity_hub_of' = st.liquidity_hub_of

\* The stored fields of (wallet, pid), and the wallet's used_ids.
Snapshot(st, wallet, pid) ==
    LET key == composite_key(wallet, b32(pid))
    IN  [nonce |-> map_get_b32(st.nonce_of, key),
         signer |-> map_get_b32(st.signer_of, key),
         state_view |-> map_get_b32(st.state_view_of, key),
         vts_orchestrator |-> map_get_b32(st.vts_orchestrator_of, key),
         liquidity_hub |-> map_get_b32(st.liquidity_hub_of, key),
         used_ids |-> map_get(st.used_ids, wallet)]

StoredNonce(k) == map_get_b32(nonce_of, composite_key(k.wallet, b32(k.pid)))

\* A mapping with every key at zero.
EmptyMap == [x \in {} |-> 0]

NoSnapshot ==
    [nonce |-> 0, signer |-> 0, state_view |-> 0, vts_orchestrator |-> 0,
     liquidity_hub |-> 0, used_ids |-> 0]

Init ==
    /\ used_ids = EmptyMap
    /\ nonce_of = EmptyMap
    /\ signer_of = EmptyMap
    /\ state_view_of = EmptyMap
    /\ vts_orchestrator_of = EmptyMap
    /\ liquidity_hub_of = EmptyMap
    /\ last = [op |-> "none", req |-> <<>>, ret |-> <<>>, trace |-> <<>>, calls |-> <<>>,
               pre |-> NoSnapshot, replay |-> FALSE]
    /\ admitted = EmptyMap

\* The effect of a call that returned r on the storage and on last.
Called(op, req, r) ==
    /\ SetStorage(r.st)
    /\ last' = [op |-> op, req |-> req, ret |-> r.ret, trace |-> r.trace,
                calls |-> r.calls, pre |-> Snapshot(Storage, req.wallet, req.pid),
                replay |-> FALSE]

\* The steps and the external calls of a handler that has none.
Plain(r) == [st |-> r.st, ret |-> r.ret, trace |-> <<>>, calls |-> <<>>]

\* A wallet calls on_install.
OnInstall(req) ==
    /\ Called("on_install", req,
              Plain(on_install(Storage, req.wallet, install_data_of(req))))
    /\ UNCHANGED admitted

\* A wallet calls on_uninstall.
OnUninstall(req) ==
    /\ Called("on_uninstall", req,
              Plain(on_uninstall(Storage, req.wallet, install_data_of(req))))
    /\ UNCHANGED admitted

\* Whether req resubmits what the latest call admitted.
IsReplay(req) ==
    /\ last.op = "check_user_op_policy"
    /\ last.ret = POLICY_SUCCESS_UINT
    /\ Submission(last.req) = Submission(req)

\* The requests offered in the current state: the good requests at every
\* nonce, the others at the stored nonce of the key they are presented under.
Offered(req) ==
    \/ req \in GoodRequests
    \/ req.intent.nonce = StoredNonce(req)

\* A wallet (its Kernel account) calls check_user_op_policy: the effect on
\* the storage and on last.
CheckUserOp(req) ==
    LET done(r) ==
            /\ SetStorage(r.st)
            /\ last' = [op |-> "check_user_op_policy", req |-> req, ret |-> r.ret,
                        trace |-> r.trace, calls |-> r.calls,
                        pre |-> Snapshot(Storage, req.wallet, req.pid),
                        replay |-> IsReplay(req)]
    IN  /\ Offered(req)
        /\ done(check_user_op_policy(Storage, vm_of(req), b32(req.pid), user_op_of(req)))

CheckUserOpPolicy(req) ==
    /\ CheckUserOp(req)
    /\ UNCHANGED admitted

\* Anyone calls check_signature_policy.
CheckSignaturePolicy(req) ==
    /\ Called("check_signature_policy", req,
              Plain(check_signature_policy(Storage, b32(req.pid), req.sender, req.hash,
                                           req.sig)))
    /\ UNCHANGED admitted

Next ==
    \/ \E req \in InstallRequests : OnInstall(req)
    \/ \E req \in UninstallRequests : OnUninstall(req)
    \/ \E req \in CheckRequests : CheckUserOpPolicy(req)
    \/ \E req \in SignatureRequests : CheckSignaturePolicy(req)

Spec == Init /\ [][Next]_vars

(***************************************************************************)
(* A second specification, for the life of one envelope: installs and      *)
(* uninstalls of the two keys and the good requests below the top nonce,   *)
(* with the number of times each submission was admitted (counted to 2).   *)
(***************************************************************************)
ReplayRequests ==
    {GoodRequest(k, n) : k \in InstalledKeys, n \in 0..(U256_MAX - 1)}

Admissions(req) ==
    IF Submission(req) \in DOMAIN admitted THEN admitted[Submission(req)] ELSE 0

CheckUserOpCounted(req) ==
    /\ CheckUserOp(req)
    /\ admitted' =
          IF last'.ret = POLICY_SUCCESS_UINT /\ Admissions(req) < 2
          THEN [e \in DOMAIN admitted \cup {Submission(req)} |->
                    IF e = Submission(req) THEN Admissions(req) + 1 ELSE admitted[e]]
          ELSE admitted

ReplayNext ==
    \/ \E req \in {r \in InstallRequests : r.form = "valid"} : OnInstall(req)
    \/ \E req \in {r \in UninstallRequests : <<r.wallet, r.pid>> # <<KeyC.wallet, KeyC.pid>>} :
            OnUninstall(req)
    \/ \E req \in ReplayRequests : CheckUserOpCounted(req)

SpecReplay == Init /\ [][ReplayNext]_vars

(***************************************************************************)
(* The claims.  In every formula `last` is the latest call: its request,   *)
(* what it returned, the steps it entered, the calls it made, and the      *)
(* stored fields of its key before it ran.                                 *)
(***************************************************************************)
IsCheck == last.op = "check_user_op_policy"

Admitted == IsCheck /\ last.ret = POLICY_SUCCESS_UINT

Rejected == IsCheck /\ last.ret = POLICY_FAILED_UINT

\* The step at which the latest check returned.
LastStep == IF Len(last.trace) = 0 THEN "" ELSE At(last.trace, Len(last.trace))

\* C1: a call of check_user_op_policy that returns reject (1) leaves the six
\* mappings of the module, the stored nonce among them, as they were,
\* whatever step rejected.
C1_RejectChangesNothing ==
    [][(last'.op = "check_user_op_policy" /\ last'.ret = POLICY_FAILED_UINT)
            => UNCHANGED storage_vars]_vars

\* A check of an installed key with a consumed nonce is rejected at the very
\* last step, the evaluation.
C1_RejectedAtEvaluation ==
    /\ Rejected
    /\ LastStep = "evaluate"
    /\ last.pre.nonce > 0

\* C2 as stated: every admit leaves the stored nonce at the nonce before the
\* call plus exactly 1, for every prior nonce.
C2_AdmitAddsExactlyOne ==
    Admitted => StoredNonce(last.req) = last.pre.nonce + 1

\* C2, amended: every admit leaves the stored nonce at the nonce before the
\* call plus 1, except at U256::MAX, where it stays.
C2_AdmitAddsOneSaturating ==
    Admitted =>
        StoredNonce(last.req) =
            IF last.pre.nonce < U256_MAX THEN last.pre.nonce + 1 ELSE U256_MAX

\* An envelope is admitted while the stored nonce is U256::MAX.
C2_AdmittedAtMaxNonce == Admitted /\ last.pre.nonce = U256_MAX

\* C3 as stated: the submission that was just admitted, submitted again as
\* the next operation, is rejected at the nonce comparison.
C3_ReplayRejected ==
    last.replay => (Rejected /\ LastStep = "nonce")

\* C3, amended: the submission that was just admitted, submitted again as the
\* next operation, is rejected at the nonce comparison, provided its nonce
\* is below U256::MAX.
C3_ReplayRejectedBelowMax ==
    (last.replay /\ last.req.intent.nonce < U256_MAX) =>
        /\ Rejected
        /\ LastStep = "nonce"
        /\ last.req.intent.nonce # last.pre.nonce

\* A replay of an envelope whose nonce is below U256::MAX has been rejected.
C3_ReplayBelowMaxSeen ==
    last.replay /\ last.req.intent.nonce < U256_MAX /\ Rejected

\* C4: over any sequence of on_install, on_uninstall and
\* check_user_op_policy calls, an envelope presented with the same call data
\* under the same key is admitted at most once, also after the key is
\* uninstalled and installed again with the same signer.
C4_AdmittedAtMostOnce ==
    \A e \in DOMAIN admitted : admitted[e] <= 1

\* C5: the stored nonce of a key is 0 after its install, and no call of
\* on_install, on_uninstall or check_user_op_policy leaves the stored nonce
\* of a key smaller than it found it.
C5_NonceStartsAtZeroAndNeverDecreases ==
    /\ (last.op = "on_install" /\ last.ret = <<"ok">>) => StoredNonce(last.req) = 0
    /\ last.op \in {"on_install", "on_uninstall", "check_user_op_policy"}
          => StoredNonce(last.req) >= last.pre.nonce

(***************************************************************************)
(* The condition of each step of check_user_op_policy, stated on the       *)
(* request and on the fields stored under its key before the call.         *)
(***************************************************************************)
FixedOrder ==
    <<"installed", "parse", "version", "deadline", "bundle_hash", "nonce", "signer",
      "decode", "sources", "evaluate">>

EnvelopeOf(req) == parse_policy_envelope(user_op_of(req).signature)

DigestOf(req, env) ==
    policy_intent_digest(Deployment.chain_id, Deployment.contract_address, req.wallet,
                         b32(req.pid), env.nonce, env.deadline, env.call_bundle_hash,
                         env.program_bytes)

RecoveredOf(req, env) == ecrecover_address(DigestOf(req, env), env.signature)

SourcesOf(pre) ==
    [state_view |-> pre.state_view, vts_orchestrator |-> pre.vts_orchestrator,
     liquidity_hub |-> pre.liquidity_hub]

StepHolds(name, req, pre) ==
    LET env == EnvelopeOf(req).val
        signed_by(recovered) == recovered.ok /\ recovered.val = pre.signer
        within(decoded) == decoded.ok /\ Len(decoded.val) <= MAX_CHECKS_DEFAULT
        passes(decoded) ==
            evaluate_program(decoded.val,
                             OnchainFactsProvider_new(SourcesOf(pre), 200000, req.now),
                             World(req.world)).ok
    IN  CASE name = "installed" -> pre.state_view # ADDRESS_ZERO
          [] name = "parse" -> EnvelopeOf(req).ok
          [] name = "version" -> env.version = 1
          [] name = "deadline" -> req.now <= env.deadline
          [] name = "bundle_hash" -> keccak256(call_data_of(req.call)) = env.call_bundle_hash
          [] name = "nonce" -> env.nonce = pre.nonce
          [] name = "signer" ->
                pre.signer # ADDRESS_ZERO /\ signed_by(RecoveredOf(req, env))
          [] name = "decode" -> within(decode_program(env.program_bytes))
          [] name = "sources" ->
                /\ pre.state_view # ADDRESS_ZERO
                /\ pre.vts_orchestrator # ADDRESS_ZERO
                /\ pre.liquidity_hub # ADDRESS_ZERO
          [] name = "evaluate" -> passes(decode_program(env.program_bytes))

\* C6: check_user_op_policy returns admit only if the key is installed, the
\* envelope parses and has version 1, the block timestamp is at most the
\* deadline, keccak256(call_data) is the envelope's call_bundle_hash, the
\* envelope nonce is the stored nonce, the address recovered from digest and
\* signature is the configured non-zero signer, the program decodes to at
\* most 64 checks, the three fact sources are non-zero and evaluate_program
\* succeeds.
C6_AdmitOnlyIfAllHold ==
    Admitted => \A k \in 1..Len(FixedOrder) : StepHolds(At(FixedOrder, k), last.req, last.pre)

C6_AdmittedWithMaxChecks ==
    /\ Admitted
    /\ last.req.intent.program = "max_checks"
    /\ last.pre.nonce > 0

\* The call of the good request of KeyA at the stored nonce, and of the same
\* request with one byte of the program changed after signing, in the
\* current storage.
FirstOfPair == GoodRequest(KeyA, StoredNonce(KeyA))

SecondOfPair == [FirstOfPair EXCEPT !.wire = "flip_program_byte"]

OutcomeNow(req) == check_user_op_policy(Storage, vm_of(req), b32(req.pid), user_op_of(req))

\* C7: of two envelopes with the same nonce, deadline, call_bundle_hash and
\* signature (by the configured signer, over the first) whose programs
\* differ in one byte, the first is admitted and the second is rejected at
\* the signer step, the address recovered for it not being the configured
\* signer; and an admitted envelope always carries the program, unchanged,
\* that the configured signer signed.
C7_TamperedProgramRejected ==
    /\ is_installed_key(Storage, composite_key(KeyA.wallet, b32(KeyA.pid))) =>
          LET second(r) ==
                  /\ r.ret = POLICY_FAILED_UINT
                  /\ At(r.trace, Len(r.trace)) = "signer"
              other(recovered) ==
                  recovered.ok => recovered.val # Actors.signer
          IN  /\ OutcomeNow(FirstOfPair).ret = POLICY_SUCCESS_UINT
              /\ second(OutcomeNow(SecondOfPair))
              /\ other(RecoveredOf(SecondOfPair, EnvelopeOf(SecondOfPair).val))
    /\ Admitted =>
          /\ last.req.intent.key = last.pre.signer
          /\ EnvelopeOf(last.req).val.program_bytes = Program(last.req.intent.program)

C7_TamperedSeenRejected ==
    /\ Rejected
    /\ Submission(last.req) = Submission(SecondOfPair)
    /\ LastStep = "signer"
    /\ last.pre.signer = last.req.intent.key
    /\ OutcomeNow(FirstOfPair).ret = POLICY_SUCCESS_UINT

\* The scope an intent was signed for, and the scope a request presents it in.
SignedScope(req) ==
    <<req.intent.chain_id, req.intent.contract, req.intent.wallet, req.intent.pid>>

PresentedScope(req) ==
    <<Deployment.chain_id, Deployment.contract_address, req.wallet, req.pid>>

\* C8: an envelope signed for one (chain id, contract, wallet, permission id)
\* and presented under another is rejected; when the key it is presented
\* under is installed with the same signer and stored nonce and the call
\* data is the same, it is rejected at the signer step.
C8_OutOfScopeRejected ==
    (IsCheck /\ SignedScope(last.req) # PresentedScope(last.req)) =>
        /\ Rejected
        /\ (/\ last.pre.state_view # ADDRESS_ZERO
            /\ last.pre.signer = last.req.intent.key
            /\ last.pre.nonce = last.req.intent.nonce
            /\ last.req.call = last.req.intent.call
            /\ last.req.wire = "as_signed"
            /\ last.req.v = 27
            /\ last.req.now <= last.req.intent.deadline) => LastStep = "signer"

C8_OtherPermissionSeenRejected ==
    /\ Rejected
    /\ LastStep = "signer"
    /\ <<last.req.wallet, last.req.pid>> = <<KeyB.wallet, KeyB.pid>>
    /\ <<last.req.intent.wallet, last.req.intent.pid>> = <<KeyA.wallet, KeyA.pid>>
    /\ last.pre.signer = last.req.intent.key
    /\ last.pre.nonce = last.req.intent.nonce
    /\ StoredNonce(KeyA) = last.req.intent.nonce

\* Whether the steps of trace are the first steps of order.
IsPrefix(trace, order) ==
    Len(trace) <= Len(order) /\ trace = SubSeq(order, 1, Len(trace))

Entered(name) == \E k \in 1..Len(last.trace) : At(last.trace, k) = name

BundleMismatch(req) ==
    EnvelopeOf(req).ok
        /\ keccak256(call_data_of(req.call)) # EnvelopeOf(req).val.call_bundle_hash

\* C9: check_user_op_policy enters its steps in the order installed, parse,
\* version, deadline, bundle hash, nonce, signer, decode, sources, evaluate,
\* and the last step it enters is the first whose condition fails; when
\* keccak256(call_data) is not the envelope's call_bundle_hash it rejects
\* with no precompile or fact-source call made and without entering the
\* signer, decode, sources or evaluate step.
C9_FixedOrderStopsAtFirstFailure ==
    IsCheck =>
        /\ IsPrefix(last.trace, FixedOrder)
        /\ Len(last.trace) > 0
        /\ \A k \in 1..(Len(last.trace) - 1) :
              StepHolds(At(FixedOrder, k), last.req, last.pre)
        /\ Rejected <=> ~StepHolds(LastStep, last.req, last.pre)
        /\ BundleMismatch(last.req) =>
              /\ Rejected
              /\ last.calls = <<>>
              /\ ~\E name \in {"signer", "decode", "sources", "evaluate"} : Entered(name)

C9_BundleMismatchSeen ==
    /\ Rejected
    /\ BundleMismatch(last.req)
    /\ LastStep = "bundle_hash"
    /\ last.pre.nonce = last.req.intent.nonce
    /\ last.pre.signer = last.req.intent.key

\* C10: check_signature_policy returns admit for every permission id,
\* sender, hash and signature, whether or not the key is installed, and
\* leaves the storage as it found it.
C10_SignaturePolicyAlwaysAdmits ==
    [][last'.op = "check_signature_policy" =>
          (last'.ret = POLICY_SUCCESS_UINT /\ UNCHANGED storage_vars)]_vars

C10_AdmitsForKeyNotInstalled ==
    /\ last.op = "check_signature_policy"
    /\ last.pre.state_view = ADDRESS_ZERO
    /\ last.pre.used_ids > 0
    /\ last.req.sig = <<>>
    /\ last.req.sender = Actors.attacker

(***************************************************************************)
(* The keys of the model and what the storage holds for each.              *)
(***************************************************************************)
AllKeys == InstalledKeys \cup {KeyC}

Wallets == {k.wallet : k \in AllKeys}

Fields(k) == Snapshot(Storage, k.wallet, k.pid)

IsInstalled(k) == is_installed_key(Storage, composite_key(k.wallet, b32(k.pid)))

InstalledOf(wallet) == {k \in AllKeys : k.wallet = wallet /\ IsInstalled(k)}

\* C11: a key is installed exactly when its state_view is non-zero, a key
\* that is not installed has nonce, signer, state_view, vts_orchestrator
\* and liquidity_hub at zero, and a successful on_uninstall leaves the five
\* fields of its key at zero and the wallet's used_ids one lower.
C11_UninstalledKeyIsZero ==
    /\ \A k \in AllKeys :
          /\ IsInstalled(k) <=> Fields(k).state_view # ADDRESS_ZERO
          /\ ~IsInstalled(k) =>
                /\ Fields(k).nonce = 0
                /\ Fields(k).signer = ADDRESS_ZERO
                /\ Fields(k).state_view = ADDRESS_ZERO
                /\ Fields(k).vts_orchestrator = ADDRESS_ZERO
                /\ Fields(k).liquidity_hub = ADDRESS_ZERO
    /\ (last.op = "on_uninstall" /\ last.ret = <<"ok">>) =>
          /\ ~IsInstalled(last.req)
          /\ last.pre.state_view # ADDRESS_ZERO
          /\ last.pre.used_ids >= 1
          /\ Fields(last.req).used_ids = last.pre.used_ids - 1

C11_UninstalledAfterUse ==
    /\ last.op = "on_uninstall"
    /\ last.ret = <<"ok">>
    /\ last.pre.nonce > 0
    /\ last.pre.signer # ADDRESS_ZERO
    /\ last.pre.used_ids = 2

\* C12: used_ids of a wallet is the number of permission ids installed for
\* it, and is_initialized(wallet) holds exactly when there is at least one.
C12_UsedIdsCountsInstalled ==
    \A w \in Wallets :
        /\ map_get(used_ids, w) = Cardinality(InstalledOf(w))
        /\ is_initialized(Storage, w) <=> InstalledOf(w) # {}

C12_OneOfTwoLeft ==
    /\ last.op = "on_uninstall"
    /\ last.ret = <<"ok">>
    /\ Cardinality(InstalledOf(last.req.wallet)) = 1
    /\ is_initialized(Storage, last.req.wallet)

\* The storage key of each key of the model.
KeyIds == [k \in AllKeys |-> WordId(composite_key(k.wallet, b32(k.pid)))]

\* The key a request is made for.
KeyOf(req) == [wallet |-> req.wallet, pid |-> req.pid]

C14_StructuredErrorsChangeNothing ==
    [][/\ (/\ last'.op = "on_install"
           /\ last'.req.form # "short"
           /\ last'.pre.state_view # ADDRESS_ZERO)
              => (last'.ret = <<"revert", "AlreadyInitialized">> /\ UNCHANGED storage_vars)
       /\ (/\ last'.op = "on_uninstall"
           /\ last'.req.form # "short"
           /\ last'.pre.state_view = ADDRESS_ZERO)
              => (last'.ret = <<"revert", "NotInitialized">> /\ UNCHANGED storage_vars)]_vars

C14_SecondInstallRefused ==
    /\ last.op = "on_install"
    /\ last.req.form = "bad_length"
    /\ last.ret = <<"revert", "AlreadyInitialized">>
    /\ last.pre.nonce > 0
    /\ last.pre.used_ids = 2

(***************************************************************************)
(* evaluate_program on its own: a check list and a facts provider are      *)
(* drawn, and evaluate_program is applied to them.  last.req is the input  *)
(* and last.ret what evaluate_program returned for it.                     *)
(***************************************************************************)
EvalTimes == {1000, 1000000000}

EvalDeadlines == {0, 500, 999, 1000, 1001, 2000000000, U64_MAX}

U256s == 0..U256_MAX

Position == b32(119)

\* The checks of each opcode that the inputs are built of.
ChecksOf(op) ==
    CASE op = "Deadline" -> {[op |-> op, deadline |-> d] : d \in EvalDeadlines}
      [] op = "Nonce" -> {[op |-> op, expected |-> x] : x \in U256s}
      [] op = "CallBundleHash" -> {[op |-> op, hash |-> b32(h)] : h \in {0, 9}}
      [] op = "TokenAmountLte" -> {[op |-> op, token |-> 77, max |-> x] : x \in U256s}
      [] op = "NativeValueLte" -> {[op |-> op, max |-> x] : x \in U256s}
      [] op = "LiquidityDeltaLte" -> {[op |-> op, max |-> x] : x \in U256s}
      [] op = "Slot0TickBounds" ->
            {[op |-> op, pool_id |-> b32(85), min |-> b[1], max |-> b[2]] :
                b \in {<<-5, 5>>, <<0, 5>>, <<-9, -4>>}}
      [] op = "Slot0SqrtPriceBounds" ->
            {[op |-> op, pool_id |-> b32(85), min |-> b[1], max |-> b[2]] :
                b \in {<<0, U256_MAX>>, <<1, 9>>, <<6, 9>>}}
      [] op = "RfsClosed" -> {[op |-> op, position_id |-> Position]}
      [] op = "QueueLte" ->
            {[op |-> op, lcc |-> 77, owner |-> KeyA.wallet, max |-> x] : x \in U256s}
      [] op = "ReserveGte" -> {[op |-> op, lcc |-> 77, min |-> x] : x \in {0, 7, 8}}
      [] op = "SettledGte" ->
            {[op |-> op, position_id |-> Position, min_amount0 |-> x, min_amount1 |-> y] :
                x \in {0, 5}, y \in {0, 6}}
      [] op = "CommitmentDeficitLte" ->
            {[op |-> op, position_id |-> Position, max_deficit0 |-> x, max_deficit1 |-> y] :
                x \in U256s, y \in U256s}
      [] op = "GracePeriodGte" ->
            {[op |-> op, position_id |-> Position, min_seconds |-> x] :
                x \in {0, 10, 11, 10000000, U64_MAX}}
      [] op = "StaticCallU256" ->
            {[op |-> op, target |-> t, selector |-> selector("reserveOfUnderlying(address)"),
              args |-> pad_address(77), cmp |-> c, rhs |-> 7] :
                t \in {Sources.liquidity_hub, Elsewhere.contract_address},
                c \in {"Gte", "Lt"}}

Opcodes ==
    {"Deadline", "Nonce", "CallBundleHash", "TokenAmountLte", "NativeValueLte",
     "LiquidityDeltaLte", "Slot0TickBounds", "Slot0SqrtPriceBounds", "RfsClosed",
     "QueueLte", "ReserveGte", "SettledGte", "CommitmentDeficitLte", "GracePeriodGte",
     "StaticCallU256"}

FactsErrors ==
    {<<"NotImplemented">>, <<"ForbiddenCall", Elsewhere.contract_address, selector("f()")>>,
     <<"CallFailed">>, <<"MalformedReturn">>}

Methods ==
    {"get_slot0", "is_rfs_closed", "queue_amount", "reserve_of", "get_settled_amounts",
     "get_commitment_maxima", "grace_period_remaining", "staticcall_u256"}

\* The returns of a test oracle whose every method succeeds, with the given
\* commitment maxima and settled amounts.
Answers(commitment, settled) ==
    [m \in Methods |->
        CASE m = "get_slot0" ->
                [ok |-> TRUE, val |-> [sqrt_price_x96 |-> 5, tick |-> -3,
                                       protocol_fee |-> 0, lp_fee |-> 3000]]
          [] m = "is_rfs_closed" -> [ok |-> TRUE, val |-> TRUE]
          [] m = "queue_amount" -> [ok |-> TRUE, val |-> 1]
          [] m = "reserve_of" -> [ok |-> TRUE, val |-> 7]
          [] m = "get_settled_amounts" ->
                [ok |-> TRUE, val |-> [amount0 |-> settled[1], amount1 |-> settled[2]]]
          [] m = "get_commitment_maxima" ->
                [ok |-> TRUE,
                 val |-> [commitment0 |-> commitment[1], commitment1 |-> commitment[2]]]
          [] m = "grace_period_remaining" -> [ok |-> TRUE, val |-> 100]
          [] m = "staticcall_u256" -> [ok |-> TRUE, val |-> 7]]

\* The same oracle with the method m returning Err(e).
Failing(answers, m, e) == [answers EXCEPT ![m] = [ok |-> FALSE, err |-> e]]

Provided(facts, world) == [facts |-> facts, world |-> world]

\* The production oracle over each world, at each time.
OnchainProviders ==
    {Provided(OnchainFactsProvider_new(Sources, 200000, t), World(w)) :
        t \in EvalTimes, w \in {"closed", "open", "revert", "short"}}

MockProviders == {Provided(MockFactsProvider_new(t), World("closed")) : t \in EvalTimes}

\* Test oracles: every method succeeding, one method failing, and every
\* value of the commitments and of the settled amounts.
FailingProviders ==
    {Provided(TableFactsProvider_new(1000, Failing(Answers(<<1, 1>>, <<1, 1>>), m, e)),
              World("closed")) : m \in Methods, e \in FactsErrors}

AmountProviders ==
    {Provided(TableFactsProvider_new(1000, Answers(<<c0, c1>>, <<s0, s1>>)),
              World("closed")) : c0 \in U256s, c1 \in U256s, s0 \in U256s, s1 \in U256s}

\* Test oracles with each remaining grace period.
GraceProviders ==
    {Provided(TableFactsProvider_new(1000,
                [Answers(<<1, 1>>, <<1, 1>>) EXCEPT
                    !["grace_period_remaining"] = [ok |-> TRUE, val |-> r]]),
              World("closed")) : r \in {0, 9, 10, 11, U64_MAX - 1, U64_MAX}}

Lists(pool, n) == UNION {[1..k -> pool] : k \in 0..n}

AllChecks == UNION {ChecksOf(op) : op \in Opcodes}

\* One check of each opcode, one that the closed world passes where there
\* is one.
Typical ==
    {[op |-> "Deadline", deadline |-> 1000], [op |-> "Deadline", deadline |-> 999],
     [op |-> "Nonce", expected |-> 1], [op |-> "CallBundleHash", hash |-> b32(9)],
     [op |-> "NativeValueLte", max |-> U256_MAX],
     [op |-> "RfsClosed", position_id |-> Position],
     [op |-> "ReserveGte", lcc |-> 77, min |-> 8],
     [op |-> "CommitmentDeficitLte", position_id |-> Position,
      max_deficit0 |-> 1, max_deficit1 |-> 0]}

EvalInput(checks, p) == [checks |-> checks, facts |-> p.facts, world |-> p.world]

\* The inputs: every single check against every oracle, and the lists of up
\* to three typical checks against the production oracle, the mock and the
\* test oracles with one failing method.
EvalInputs ==
    {EvalInput(<<c>>, p) :
        c \in AllChecks,
        p \in OnchainProviders \cup MockProviders \cup FailingProviders \cup AmountProviders}
    \cup {EvalInput(<<c>>, p) : c \in ChecksOf("GracePeriodGte"), p \in GraceProviders}
    \cup {EvalInput(cs, p) :
            cs \in Lists(Typical, 3),
            p \in {Provided(OnchainFactsProvider_new(Sources, 200000, 1000), World(w)) :
                      w \in {"closed", "open", "revert"}}
                  \cup {Provided(MockFactsProvider_new(1000), World("closed"))}
                  \cup {Provided(TableFactsProvider_new(1000, Answers(<<2, 0>>, <<1, 1>>)),
                                  World("closed"))}}

EvalInit ==
    /\ used_ids = EmptyMap
    /\ nonce_of = EmptyMap
    /\ signer_of = EmptyMap
    /\ state_view_of = EmptyMap
    /\ vts_orchestrator_of = EmptyMap
    /\ liquidity_hub_of = EmptyMap
    /\ admitted = EmptyMap
    /\ \E input \in EvalInputs :
          last = [op |-> "input", req |-> input, ret |-> <<>>, trace |-> <<>>,
                  calls |-> <<>>, pre |-> NoSnapshot, replay |-> FALSE]

\* evaluate_program(checks, facts) is called on the input.
Evaluate ==
    /\ last.op = "input"
    /\ last' = [last EXCEPT
                    !.op = "evaluate_program",
                    !.ret = evaluate_program(last.req.checks, last.req.facts, last.req.world)]
    /\ UNCHANGED <<storage_vars, admitted>>

EvalNext == Evaluate

SpecEval == EvalInit /\ [][EvalNext]_vars

Evaluated == last.op = "evaluate_program"

\* What evaluate_program returned, its input, and whether it got as far as
\* the check numbered k.
Result == last.ret

Input == last.req

Reached(k) == k \in 1..Len(Input.checks) /\ (Result.ok \/ Result.index >= k)

\* The methods of the oracle that a check of an opcode depends on.
MethodsOf(op) ==
    CASE op \in {"Slot0TickBounds", "Slot0SqrtPriceBounds"} -> {"get_slot0"}
      [] op = "RfsClosed" -> {"is_rfs_closed"}
      [] op = "QueueLte" -> {"queue_amount"}
      [] op = "ReserveGte" -> {"reserve_of"}
      [] op = "SettledGte" -> {"get_settled_amounts"}
      [] op = "CommitmentDeficitLte" -> {"get_commitment_maxima", "get_settled_amounts"}
      [] op = "GracePeriodGte" -> {"grace_period_remaining"}
      [] op = "StaticCallU256" -> {"staticcall_u256"}
      [] OTHER -> {}

\* The error a check of an opcode returns for a semantic failure.
SemanticError(op) ==
    CASE op = "Slot0TickBounds" -> "TickOutOfBounds"
      [] op = "Slot0SqrtPriceBounds" -> "PriceOutOfBounds"
      [] op = "RfsClosed" -> "RfsNotClosed"
      [] op = "QueueLte" -> "QueueExceeded"
      [] op = "ReserveGte" -> "ReserveTooLow"
      [] OTHER -> "StaticCallFailed"

\* The FactsErrors the oracle of the input returns to a check: those of its
\* table, NotImplemented of the mock, and for the production oracle
\* CallFailed when the call reverts, MalformedReturn when the return is short
\* and ForbiddenCall when the target is not on the allowlist.
OracleErrors(input, check) ==
    IF "answers" \in DOMAIN input.facts
    THEN {input.facts.answers[m].err[1] :
            m \in {x \in MethodsOf(check.op) : ~input.facts.answers[x].ok}}
    ELSE IF "sources" \notin DOMAIN input.facts THEN {"NotImplemented"}
    ELSE IF check.op = "StaticCallU256"
            /\ <<check.target, check.selector>> \notin input.facts.allowlist
         THEN {"ForbiddenCall"}
    ELSE IF input.world.reverts THEN {"CallFailed"}
    ELSE IF input.world.short THEN {"MalformedReturn"}
    ELSE {}

\* C15: when the oracle returns a FactsError, whichever variant, to an
\* oracle-dependent check that evaluate_program reaches, evaluate_program
\* returns an error, that check is the one that failed, and the error is the
\* variant the check returns for a semantic failure: TickOutOfBounds,
\* PriceOutOfBounds, RfsNotClosed, QueueExceeded, ReserveTooLow, or
\* StaticCallFailed for SettledGte, CommitmentDeficitLte, GracePeriodGte and
\* StaticCallU256.
C15_OracleErrorIsSemanticError ==
    Evaluated =>
        \A k \in 1..Len(Input.checks) :
            (/\ Reached(k)
             /\ MethodsOf(Input.checks[k].op) # {}
             /\ OracleErrors(Input, Input.checks[k]) # {})
            => /\ ~Result.ok
               /\ Result.index = k
               /\ Result.err = SemanticError(Input.checks[k].op)

C15_ForbiddenCallFoldsToTickOutOfBounds ==
    /\ Evaluated
    /\ Len(Input.checks) = 1
    /\ Input.checks[1].op = "Slot0TickBounds"
    /\ Input.checks[1].min = -5
    /\ OracleErrors(Input, Input.checks[1]) = {"ForbiddenCall"}
    /\ Result.err = "TickOutOfBounds"

\* The check numbered k of the input evaluated on its own, and the numbers
\* of the checks that fail.
Alone(k) == evaluate_check(Input.checks[k], Input.facts, Input.world)

FailingChecks == {k \in 1..Len(Input.checks) : ~Alone(k).ok}

\* The checks that need a fact of the oracle: the time or a method's return.
NeedsFact(check) == check.op = "Deadline" \/ MethodsOf(check.op) # {}

\* C16: evaluate_program fails exactly when some check fails, with the error
\* of the failing check of the lowest index; the calls it makes are made in
\* the order of the checks, each by a check at or before that index and by a
\* check that needs a fact, and none by a check after the first failing one.
C16_FirstFailingCheckDecides ==
    Evaluated =>
        /\ Result.ok <=> FailingChecks = {}
        /\ ~Result.ok =>
              /\ Result.index \in FailingChecks
              /\ \A k \in FailingChecks : Result.index <= k
              /\ Result.err = Alone(Result.index).err
        /\ Len(Result.by) = Len(Result.calls)
        /\ \A i \in 1..Len(Result.by) :
              /\ Result.by[i] \in 1..Len(Input.checks)
              /\ \A k \in FailingChecks : Result.by[i] <= k
              /\ NeedsFact(Input.checks[Result.by[i]])
              /\ i > 1 => Result.by[i - 1] <= Result.by[i]
        /\ \A k \in 1..Len(Input.checks) :
              (Reached(k) /\ NeedsFact(Input.checks[k]))
                  => \E i \in 1..Len(Result.by) : Result.by[i] = k

C16_StoppedBeforeThirdCheck ==
    /\ Evaluated
    /\ Len(Input.checks) = 3
    /\ Input.checks[1].op = "RfsClosed"
    /\ Input.checks[3].op = "Deadline"
    /\ ~Result.ok
    /\ Result.index = 2
    /\ Result.err = "ReserveTooLow"
    /\ Result.by = <<1, 1, 2, 2>>
    /\ FailingChecks = {2, 3}

\* The time the oracle of the input reports.
TimeOf(input) ==
    IF "sources" \in DOMAIN input.facts THEN input.facts.now
    ELSE input.facts.block_timestamp

\* C17: a Deadline(d) check that evaluate_program reaches fails, with
\* DeadlineExpired, exactly when the oracle's block_timestamp() is greater
\* than d, and passes when it is d or less: Deadline(2_000_000_000) at
\* 1_000_000_000 passes and Deadline(500) at 1_000 fails with DeadlineExpired.
C17_DeadlineFailsExactlyWhenPast ==
    Evaluated =>
        /\ \A k \in 1..Len(Input.checks) :
              (Reached(k) /\ Input.checks[k].op = "Deadline") =>
                  /\ (~Result.ok /\ Result.index = k)
                        <=> TimeOf(Input) > Input.checks[k].deadline
                  /\ TimeOf(Input) > Input.checks[k].deadline
                        => Result.err = "DeadlineExpired"
        /\ (Input.checks = <<[op |-> "Deadline", deadline |-> 2000000000]>>
              /\ TimeOf(Input) = 1000000000) => Result.ok
        /\ (Input.checks = <<[op |-> "Deadline", deadline |-> 500]>>
              /\ TimeOf(Input) = 1000)
                => (~Result.ok /\ Result.err = "DeadlineExpired")

C17_PassesAtTheDeadline ==
    /\ Evaluated
    /\ Input.checks = <<[op |-> "Deadline", deadline |-> 1000]>>
    /\ TimeOf(Input) = 1000
    /\ "sources" \in DOMAIN Input.facts
    /\ Result.ok

Unsupported == {"TokenAmountLte", "NativeValueLte", "LiquidityDeltaLte"}

\* The calls of the result that the check numbered k made.
CallsBy(k) == {i \in 1..Len(Result.by) : Result.by[i] = k}

\* C18: evaluate_program accepts no check list that holds a TokenAmountLte,
\* NativeValueLte or LiquidityDeltaLte check, whatever the operands and the
\* oracle; such a check, when reached, fails with UnsupportedCheck and makes
\* no call to the oracle.
C18_UnsupportedNeverAccepted ==
    Evaluated =>
        /\ (\E k \in 1..Len(Input.checks) : Input.checks[k].op \in Unsupported)
              => ~Result.ok
        /\ \A k \in 1..Len(Input.checks) :
              (Reached(k) /\ Input.checks[k].op \in Unsupported) =>
                  /\ ~Result.ok
                  /\ Result.index = k
                  /\ Result.err = "UnsupportedCheck"
                  /\ CallsBy(k) = {}

C18_UnsupportedAfterTwoPasses ==
    /\ Evaluated
    /\ Len(Input.checks) = 3
    /\ Input.checks[1].op = "RfsClosed"
    /\ Input.checks[2].op = "CommitmentDeficitLte"
    /\ Input.checks[3] = [op |-> "NativeValueLte", max |-> U256_MAX]
    /\ Result.index = 3
    /\ Result.err = "UnsupportedCheck"
    /\ CallsBy(1) # {}
    /\ CallsBy(3) = {}

NoOps == {"Nonce", "CallBundleHash"}

\* The checks of a list without its Nonce and CallBundleHash checks.
WithoutNoOps(checks) == SelectSeq(checks, LAMBDA c : c.op \notin NoOps)

\* What evaluate_program says of a result: success, or the error.
Verdict(r) == IF r.ok THEN <<"ok">> ELSE <<"err", r.err>>

\* C19: a Nonce(x) or CallBundleHash(h) check that evaluate_program reaches
\* passes whatever its operand and makes no call to the oracle, and the
\* program without its Nonce and CallBundleHash checks evaluates to the same
\* result, with the same calls made.
C19_NonceAndBundleHashAreNoOps ==
    Evaluated =>
        /\ \A k \in 1..Len(Input.checks) :
              (Reached(k) /\ Input.checks[k].op \in NoOps) =>
                  /\ Result.ok \/ Result.index # k
                  /\ CallsBy(k) = {}
        /\ LET without == evaluate_program(WithoutNoOps(Input.checks), Input.facts,
                                           Input.world)
           IN  /\ Verdict(without) = Verdict(Result)
               /\ without.calls = Result.calls

C19_NoOpsBetweenChecks ==
    /\ Evaluated
    /\ Len(Input.checks) = 3
    /\ Input.checks[1] = [op |-> "Nonce", expected |-> 1]
    /\ Input.checks[2] = [op |-> "CallBundleHash", hash |-> b32(9)]
    /\ Input.checks[3].op = "ReserveGte"
    /\ Result.index = 3
    /\ Result.err = "ReserveTooLow"
    /\ Len(WithoutNoOps(Input.checks)) = 1

\* The commitment maxima and the settled amounts that the oracle of the
\* input holds: those of its table, or of the world the production oracle
\* reads.
Commitment(input) ==
    IF "answers" \in DOMAIN input.facts
    THEN <<input.facts.answers["get_commitment_maxima"].val.commitment0,
           input.facts.answers["get_commitment_maxima"].val.commitment1>>
    ELSE <<input.world.commitment0, input.world.commitment1>>

Settled(input) ==
    IF "answers" \in DOMAIN input.facts
    THEN <<input.facts.answers["get_settled_amounts"].val.amount0,
           input.facts.answers["get_settled_amounts"].val.amount1>>
    ELSE <<input.world.settled0, input.world.settled1>>

\* max(0, a - b) over the integers.
Monus(a, b) == IF a - b > 0 THEN a - b ELSE 0

\* The check numbered k was reached and did not fail.
Passed(k) == Reached(k) /\ (Result.ok \/ Result.index > k)

\* C20: a CommitmentDeficitLte check to which the oracle returns the
\* commitments and the settled amounts passes exactly when
\* max(0, commitment0 - settled0) <= max_deficit0 and
\* max(0, commitment1 - settled1) <= max_deficit1, the differences taken
\* over the integers; when neither commitment exceeds its settled amount it
\* passes for every max_deficit0 and max_deficit1, zero included.
C20_DeficitSaturatesAtZero ==
    Evaluated =>
        \A k \in 1..Len(Input.checks) :
            (/\ Reached(k)
             /\ Input.checks[k].op = "CommitmentDeficitLte"
             /\ OracleErrors(Input, Input.checks[k]) = {})
            => LET c == Commitment(Input)
                   s == Settled(Input)
                   check == Input.checks[k]
               IN  /\ Passed(k) <=> /\ Monus(c[1], s[1]) <= check.max_deficit0
                                    /\ Monus(c[2], s[2]) <= check.max_deficit1
                   /\ (c[1] <= s[1] /\ c[2] <= s[2]) => Passed(k)

C20_SettledAboveCommitmentPasses ==
    /\ Evaluated
    /\ Len(Input.checks) = 1
    /\ Input.checks[1].op = "CommitmentDeficitLte"
    /\ Input.checks[1].max_deficit0 = 0
    /\ Input.checks[1].max_deficit1 = 0
    /\ "answers" \in DOMAIN Input.facts
    /\ Result.ok
    /\ Commitment(Input) = <<0, 1>>
    /\ Settled(Input) = <<U256_MAX, 1>>

\* The remaining grace period that the oracle of the input returns for a
\* position.
RemainingOf(input, position_id) ==
    IF "answers" \in DOMAIN input.facts
    THEN input.facts.answers["grace_period_remaining"].val
    ELSE grace_period_remaining(input.facts, input.world, position_id).val

\* The selectors of the external calls that the check numbered k made
\* through one method of the oracle: its calls after the entry of the method.
SelectorsBy(k) == {Result.calls[i][2] : i \in {j \in CallsBy(k) : j - 1 \in CallsBy(k)}}

\* C21: a GracePeriodGte check to which the oracle returns a remaining time
\* passes when that time is u64::MAX, whatever min_seconds, and otherwise
\* exactly when it is min_seconds or more; the on-chain oracle, for a
\* checkpoint that is not open, calls positionToCheckpoint alone, neither
\* getPosition nor getPool, returns u64::MAX, and the check passes.
C21_GracePassesAtMaxOrEnough ==
    Evaluated =>
        \A k \in 1..Len(Input.checks) :
            (/\ Reached(k)
             /\ Input.checks[k].op = "GracePeriodGte"
             /\ OracleErrors(Input, Input.checks[k]) = {})
            => LET remaining == RemainingOf(Input, Input.checks[k].position_id)
               IN  /\ remaining = U64_MAX => Passed(k)
                   /\ remaining # U64_MAX
                        => (Passed(k) <=> remaining >= Input.checks[k].min_seconds)
                   /\ ("sources" \in DOMAIN Input.facts /\ ~Input.world.is_open)
                        => /\ remaining = U64_MAX
                           /\ Passed(k)
                           /\ SelectorsBy(k) = {selector("positionToCheckpoint(bytes32)")}

C21_ClosedCheckpointPasses ==
    /\ Evaluated
    /\ Input.checks = <<[op |-> "GracePeriodGte", position_id |-> Position, min_seconds |-> 10000000]>>
    /\ "sources" \in DOMAIN Input.facts
    /\ ~Input.world.is_open
    /\ ~Input.world.reverts
    /\ ~Input.world.short
    /\ Result.ok
    /\ Len(Result.calls) = 2

(***************************************************************************)
(* The encoder and the decoder on their own: a check list is drawn and     *)
(* encoded by encode_program; the wire program is its encoding, cut to its *)
(* first keep bytes and followed by the bytes extra; decode_program, or    *)
(* decode_program_with_limit with the limit max[1], is applied to it.      *)
(* last.req is the input, last.ret the wire program and what the decoder   *)
(* returned for it.                                                        *)
(***************************************************************************)
\* The checks that lists are built of: those of the evaluator's inputs and
\* StaticCallU256 checks with no argument bytes and with three.
CodecChecks ==
    AllChecks
    \cup {[op |-> "StaticCallU256", target |-> Sources.liquidity_hub,
           selector |-> selector("reserveOfUnderlying(address)"), args |-> a,
           cmp |-> c, rhs |-> 1] :
            a \in {<<>>, LitBytes(<<1, 240, 255>>)}, c \in {"Lt", "Lte", "Gt", "Eq", "Neq"}}

\* A list of n checks, of three opcodes in turn.
LongList(n) ==
    [k \in 1..n |->
        CASE k % 3 = 1 -> [op |-> "Deadline", deadline |-> k]
          [] k % 3 = 2 -> [op |-> "LiquidityDeltaLte", max |-> 1]
          [] OTHER -> [op |-> "Slot0TickBounds", pool_id |-> b32(85), min |-> -k, max |-> k]]

\* One check of each opcode.
OneOfEach == {CHOOSE c \in ChecksOf(op) : TRUE : op \in Opcodes}

\* The wire program of an input.
WireProgram(input) == SubSeq(encode_program(input.checks), 1, input.keep) \o input.extra

CodecInput(checks, keep, extra, max) == [checks |-> checks, keep |-> keep, extra |-> extra, max |-> max]

Whole(checks) == Len(encode_program(checks))

\* Bytes that do not form a complete check: an unknown opcode, and the
\* opcode of a check without its operands, or with a part of them.
Incomplete == {LitBytes(<<255>>), LitBytes(<<0>>), LitBytes(<<1>>), LitBytes(<<48, 0, 0>>), LitBytes(<<240, 0, 0, 0, 0>>)}

\* The inputs: the encodings of the lists of up to two checks and of lists
\* of 63 to 66 checks, whole; every cut of the encoding of a single check,
\* of pairs of checks and of the list of 64; encodings followed by
\* incomplete bytes; and limits other than the default.
CodecInputs ==
    {CodecInput(cs, Whole(cs), <<>>, <<>>) :
        cs \in Lists(CodecChecks, 2)
                \cup {LongList(n) : n \in 63..66}}
    \cup {CodecInput(cs, keep, <<>>, <<>>) :
            cs \in Lists(OneOfEach, 1) \cup {LongList(2), LongList(3)}, keep \in 0..180}
    \cup {CodecInput(LongList(64), Whole(LongList(64)) - keep, <<>>, <<>>) :
            keep \in 0..40}
    \cup {CodecInput(cs, Whole(cs), extra, <<>>) :
            cs \in Lists(OneOfEach, 1) \cup {LongList(2), LongList(63), LongList(64)},
            extra \in Incomplete}
    \cup {CodecInput(LongList(n), Whole(LongList(n)), extra, max) :
            n \in 0..4, max \in {<<m>> : m \in 0..3}, extra \in {<<>>, LitBytes(<<255>>)}}

CodecInit ==
    /\ used_ids = EmptyMap
    /\ nonce_of = EmptyMap
    /\ signer_of = EmptyMap
    /\ state_view_of = EmptyMap
    /\ vts_orchestrator_of = EmptyMap
    /\ liquidity_hub_of = EmptyMap
    /\ admitted = EmptyMap
    /\ \E input \in CodecInputs :
          /\ input.keep <= Whole(input.checks)
          /\ last = [op |-> "input", req |-> input, ret |-> <<>>, trace |-> <<>>,
                     calls |-> <<>>, pre |-> NoSnapshot, replay |-> FALSE]

\* decode_program(bytes) is called on the wire program of the input.
DecodeProgram ==
    /\ last.op = "input"
    /\ Len(last.req.max) = 0
    /\ last' = [last EXCEPT
                    !.op = "decode_program",
                    !.ret = [wire |-> WireProgram(last.req),
                             decoded |-> decode_program(WireProgram(last.req))]]
    /\ UNCHANGED <<storage_vars, admitted>>

\* decode_program_with_limit(bytes, max) is called on it.
DecodeProgramWithLimit ==
    /\ last.op = "input"
    /\ Len(last.req.max) = 1
    /\ last' = [last EXCEPT
                    !.op = "decode_program",
                    !.ret = [wire |-> WireProgram(last.req),
                             decoded |-> decode_program_with_limit(WireProgram(last.req),
                                                                   last.req.max[1])]]
    /\ UNCHANGED <<storage_vars, admitted>>

CodecNext == DecodeProgram \/ DecodeProgramWithLimit

SpecCodec == CodecInit /\ [][CodecNext]_vars

DidDecode == last.op = "decode_program"

WireBytes == last.ret.wire

DecodedProgram == last.ret.decoded

\* The input is the whole encoding of its list, decoded by decode_program.
IsWhole == last.req.keep = Whole(last.req.checks) /\ last.req.extra = <<>> /\ Len(last.req.max) = 0

\* The opcode byte of each check and the widths of its operands, in the
\* order of their declaration in the enum Check.
OpcodeByte(op) ==
    CASE op = "Deadline" -> 1
      [] op = "Nonce" -> 2
      [] op = "CallBundleHash" -> 3
      [] op = "TokenAmountLte" -> 17
      [] op = "NativeValueLte" -> 18
      [] op = "LiquidityDeltaLte" -> 19
      [] op = "Slot0TickBounds" -> 32
      [] op = "Slot0SqrtPriceBounds" -> 33
      [] op = "RfsClosed" -> 48
      [] op = "QueueLte" -> 49
      [] op = "ReserveGte" -> 50
      [] op = "SettledGte" -> 51
      [] op = "CommitmentDeficitLte" -> 52
      [] op = "GracePeriodGte" -> 53
      [] op = "StaticCallU256" -> 240

OperandWidths(check) ==
    CASE check.op = "Deadline" -> <<8>>
      [] check.op = "Nonce" -> <<32>>
      [] check.op = "CallBundleHash" -> <<32>>
      [] check.op = "TokenAmountLte" -> <<20, 32>>
      [] check.op = "NativeValueLte" -> <<32>>
      [] check.op = "LiquidityDeltaLte" -> <<16>>
      [] check.op = "Slot0TickBounds" -> <<32, 4, 4>>
      [] check.op = "Slot0SqrtPriceBounds" -> <<32, 32, 32>>
      [] check.op = "RfsClosed" -> <<32>>
      [] check.op = "QueueLte" -> <<20, 20, 32>>
      [] check.op = "ReserveGte" -> <<20, 32>>
      [] check.op = "SettledGte" -> <<32, 32, 32>>
      [] check.op = "CommitmentDeficitLte" -> <<32, 32, 32>>
      [] check.op = "GracePeriodGte" -> <<32, 8>>
      [] check.op = "StaticCallU256" -> <<20, 4, 2, Len(check.args), 1, 32>>

RECURSIVE SumOf(_)
SumOf(ns) == IF Len(ns) = 0 THEN 0 ELSE Head(ns) + SumOf(Tail(ns))

\* The place in the wire program where the check numbered k starts, and
\* the places where checks end.
StartOf(checks, k) == SumOf([j \in 1..(k - 1) |-> 1 + SumOf(OperandWidths(checks[j]))])

Boundaries(checks) == {StartOf(checks, k) : k \in 1..(Len(checks) + 1)}

\* C22: decode_program on the encoding of a list of at most 64 checks
\* returns the list itself, same order and same operands; in the encoding
\* each check is its opcode byte followed by its operands, each of its
\* declared width and in the declared order.
C22_DecodeInvertsEncode ==
    (DidDecode /\ IsWhole /\ Len(last.req.checks) <= MAX_CHECKS_DEFAULT) =>
        /\ DecodedProgram.ok
        /\ DecodedProgram.val = last.req.checks
        /\ Len(WireBytes) = StartOf(last.req.checks, Len(last.req.checks) + 1)
        /\ \A k \in 1..Len(last.req.checks) :
              WireBytes[StartOf(last.req.checks, k) + 1] = Lit(OpcodeByte(last.req.checks[k].op))

C22_StaticCallAfterTickBounds ==
    /\ DidDecode
    /\ IsWhole
    /\ Len(last.req.checks) = 2
    /\ last.req.checks[1].op = "Slot0TickBounds"
    /\ last.req.checks[1].min = -9
    /\ last.req.checks[2].op = "StaticCallU256"
    /\ last.req.checks[2].cmp = "Lte"
    /\ Len(last.req.checks[2].args) = 3
    /\ DecodedProgram.ok
    /\ DecodedProgram.val = last.req.checks

\* The limit that the decoder is called with.
LimitOf(input) == IF Len(input.max) = 0 THEN MAX_CHECKS_DEFAULT ELSE input.max[1]

\* C23: decode_program_with_limit never returns more than max checks; for a
\* wire program that has bytes left after max well-formed checks it returns
\* TooManyChecks, whatever those bytes are; the encoding of 65 checks under
\* the limit 64 returns TooManyChecks and the encoding of 64 checks returns
\* the 64 checks.
C23_TooManyChecksAtTheLimit ==
    DidDecode =>
        LET max == LimitOf(last.req)
            checks == last.req.checks
        IN  /\ DecodedProgram.ok => Len(DecodedProgram.val) <= max
            /\ (/\ Len(checks) >= max
                 /\ last.req.keep >= StartOf(checks, max + 1)
                 /\ Len(WireBytes) > StartOf(checks, max + 1))
                => (~DecodedProgram.ok /\ DecodedProgram.err = <<"TooManyChecks">>)
            /\ (IsWhole /\ Len(checks) = 65)
                => (~DecodedProgram.ok /\ DecodedProgram.err = <<"TooManyChecks">>)
            /\ (IsWhole /\ Len(checks) = 64)
                => (DecodedProgram.ok /\ DecodedProgram.val = checks)

C23_SixtyFiveChecksRefused ==
    /\ DidDecode
    /\ IsWhole
    /\ Len(last.req.checks) = 65
    /\ ~DecodedProgram.ok
    /\ DecodedProgram.err = <<"TooManyChecks">>

\* The input is a proper prefix of the encoding of its list, decoded by
\* decode_program.
IsPrefixOfWhole == last.req.keep < Whole(last.req.checks) /\ last.req.extra = <<>> /\ Len(last.req.max) = 0

\* C24: decode_program on a proper prefix of the encoding of a list of at
\* most 64 checks, when the prefix does not end where a check ends, returns
\* Truncated: not a list, and not UnknownOpcode.
C24_CutInsideACheckIsTruncated ==
    (/\ DidDecode
     /\ IsPrefixOfWhole
     /\ Len(last.req.checks) <= MAX_CHECKS_DEFAULT
     /\ last.req.keep \notin Boundaries(last.req.checks))
    => (~DecodedProgram.ok /\ DecodedProgram.err = <<"Truncated">>)

C24_CutInsideArgumentBytes ==
    /\ DidDecode
    /\ IsPrefixOfWhole
    /\ Len(last.req.checks) = 1
    /\ last.req.checks[1].op = "StaticCallU256"
    /\ Len(last.req.checks[1].args) = 32
    /\ last.req.keep = 40
    /\ DecodedProgram.err = <<"Truncated">>

\* The input is the whole encoding of its list followed by bytes that do
\* not form a complete check.
HasTrailingBytes == last.req.keep = Whole(last.req.checks) /\ last.req.extra # <<>>

KnownOpcodes == {OpcodeByte(op) : op \in Opcodes}

EnvelopePrograms ==
    {<<>>, LitBytes(<<1, 2, 3>>), LitBytes(<<0, 65>>), encode_program(LongList(2))}

EnvelopeSignatures ==
    {signature_rs(<<"key", "digest", 0>>) \o <<Lit(27)>>,
     Zeros(65),
     <<>>,
     Zeros(64),
     signature_rs(<<"key", "digest", 0>>) \o <<Lit(27), Lit(0)>>}

Envelopes ==
    [version : {0, 1, 2, 65535},
     nonce : 0..U256_MAX,
     deadline : {0, 1700000000, U64_MAX},
     call_bundle_hash : {keccak256(<<>>), Zeros(32)},
     program_bytes : EnvelopePrograms,
     signature : EnvelopeSignatures]

\* One envelope per program, signed with 65 bytes.
TypicalEnvelopes ==
    {[version |-> 1, nonce |-> U256_MAX, deadline |-> 1700000000,
      call_bundle_hash |-> keccak256(<<>>), program_bytes |-> program,
      signature |-> signature_rs(<<"key", "digest", 0>>) \o <<Lit(27)>>] :
        program \in EnvelopePrograms}

EnvelopeInput(envelope, keep, extra, patch) == [envelope |-> envelope, keep |-> keep, extra |-> extra, patch |-> patch]

WholeEnvelope(envelope) == Len(encode_envelope(envelope))

\* The encoding with the four bytes of program_len (offset 74) overwritten.
Patched(bytes, patch) ==
    IF Len(patch) = 0 THEN bytes
    ELSE SubSeq(bytes, 1, 74) \o to_be_bytes(patch[1], 4) \o SubSeq(bytes, 79, Len(bytes))

WireEnvelope(input) ==
    SubSeq(Patched(encode_envelope(input.envelope), input.patch), 1, input.keep) \o input.extra

EnvelopeInputs ==
    {EnvelopeInput(e, WholeEnvelope(e), <<>>, <<>>) : e \in Envelopes}
        \cup {EnvelopeInput(e, keep, <<>>, <<>>) : e \in TypicalEnvelopes, keep \in 0..160}
        \cup {EnvelopeInput(e, WholeEnvelope(e), extra, <<>>) :
                 e \in TypicalEnvelopes,
                 extra \in {LitBytes(<<0>>), LitBytes(<<255>>), Zeros(65)}}
        \cup {EnvelopeInput(e, WholeEnvelope(e), <<>>, <<n>>) :
                 e \in TypicalEnvelopes, n \in {0, 1, 2, 3, 4, 65, 70, 16777215}}

EnvelopeInit ==
    /\ used_ids = EmptyMap
    /\ nonce_of = EmptyMap
    /\ signer_of = EmptyMap
    /\ state_view_of = EmptyMap
    /\ vts_orchestrator_of = EmptyMap
    /\ liquidity_hub_of = EmptyMap
    /\ admitted = EmptyMap
    /\ \E input \in EnvelopeInputs :
          /\ input.keep <= WholeEnvelope(input.envelope)
          /\ last = [op |-> "input", req |-> input, ret |-> <<>>, trace |-> <<>>,
                     calls |-> <<>>, pre |-> NoSnapshot, replay |-> FALSE]

\* parse_policy_envelope(sig) is called on the wire envelope of the input.
ParsePolicyEnvelope ==
    /\ last.op = "input"
    /\ last' = [last EXCEPT
                    !.op = "parse_policy_envelope",
                    !.ret = [wire |-> WireEnvelope(last.req),
                             parsed |-> parse_policy_envelope(WireEnvelope(last.req))]]
    /\ UNCHANGED <<storage_vars, admitted>>

EnvelopeNext == ParsePolicyEnvelope

SpecEnvelope == EnvelopeInit /\ [][EnvelopeNext]_vars

DidParse == last.op = "parse_policy_envelope"

WireSig == last.ret.wire

Parsed == last.ret.parsed

\* The input is the untouched encoding of an envelope with a 65-byte signature.
IsWholeEnvelope ==
    /\ last.req.keep = WholeEnvelope(last.req.envelope)
    /\ last.req.extra = <<>>
    /\ Len(last.req.patch) = 0
    /\ Len(last.req.envelope.signature) = 65

\* The layout the wire bytes announce: program_len at offset 74, sig_len
\* after the program, the signature after that.
AnnouncedProgramLen == from_be_slice(SubSeq(WireSig, 75, 78))

AnnouncedSigLen ==
    from_be_slice(SubSeq(WireSig, 79 + AnnouncedProgramLen, 80 + AnnouncedProgramLen))

FixedFieldsFit == Len(WireSig) >= 80

SigLenFits == FixedFieldsFit /\ Len(WireSig) >= 80 + AnnouncedProgramLen

SignatureFits == SigLenFits /\ Len(WireSig) >= 80 + AnnouncedProgramLen + AnnouncedSigLen

\* Some field runs past the end of the buffer.
FieldRunsPast == ~SignatureFits

BadSigLen == SigLenFits /\ AnnouncedSigLen # 65

BytesRemain == SignatureFits /\ Len(WireSig) > 80 + AnnouncedProgramLen + AnnouncedSigLen

FixedSignatures ==
    {"getSlot0(bytes32)", "positionToCheckpoint(bytes32)",
     "getPositionSettledAmounts(bytes32)", "getCommitmentMaxima(bytes32)",
     "getPosition(bytes32)", "getPool(bytes32)", "reserveOfUnderlying(address)",
     "settleQueue(address,address)"}

\* The deployed sources, one contract serving as all three, no source at
\* all, and the state view and the orchestrator exchanged.
AllowSources ==
    {Sources,
     [state_view |-> 209, vts_orchestrator |-> 209, liquidity_hub |-> 209],
     [state_view |-> ADDRESS_ZERO, vts_orchestrator |-> ADDRESS_ZERO,
      liquidity_hub |-> ADDRESS_ZERO],
     [state_view |-> 210, vts_orchestrator |-> 209, liquidity_hub |-> 211]}

AllowTargets ==
    {ADDRESS_ZERO, Elsewhere.contract_address, Sources.state_view,
     Sources.vts_orchestrator, Sources.liquidity_hub}

AllowSelectors == {selector(sig) : sig \in FixedSignatures \cup {"f()"}}

AllowInputs ==
    {[facts |-> OnchainFactsProvider_new(sources, 200000, Clock.now),
      world |-> [World(w) EXCEPT !.pool_id = to_be_bytes(85, 32)],
      check |-> [op |-> "StaticCallU256", target |-> t, selector |-> sel,
                 args |-> b32(85), cmp |-> "Gte", rhs |-> 0]] :
        sources \in AllowSources, w \in {"closed", "revert"},
        t \in AllowTargets, sel \in AllowSelectors}

AllowInit ==
    /\ used_ids = EmptyMap
    /\ nonce_of = EmptyMap
    /\ signer_of = EmptyMap
    /\ state_view_of = EmptyMap
    /\ vts_orchestrator_of = EmptyMap
    /\ liquidity_hub_of = EmptyMap
    /\ admitted = EmptyMap
    /\ \E input \in AllowInputs :
          last = [op |-> "input", req |-> input, ret |-> <<>>, trace |-> <<>>,
                  calls |-> <<>>, pre |-> NoSnapshot, replay |-> FALSE]

\* facts.staticcall_u256(target, selector, args) is called on the provider.
StaticcallU256 ==
    /\ last.op = "input"
    /\ last' = [last EXCEPT
                    !.op = "staticcall_u256",
                    !.ret = staticcall_u256(last.req.facts, last.req.world,
                                            last.req.check.target, last.req.check.selector,
                                            last.req.check.args)]
    /\ UNCHANGED <<storage_vars, admitted>>

\* evaluate_program is called on the one-check program of the read.
EvaluateStaticCall ==
    /\ last.op = "input"
    /\ last' = [last EXCEPT
                    !.op = "evaluate_program",
                    !.ret = evaluate_program(<<last.req.check>>, last.req.facts,
                                             last.req.world)]
    /\ UNCHANGED <<storage_vars, admitted>>

AllowNext == StaticcallU256 \/ EvaluateStaticCall

SpecAllowlist == AllowInit /\ [][AllowNext]_vars

\* The eight pairs of the fixed signatures over the three sources.
FixedPairs(sources) ==
    {<<sources.state_view, selector("getSlot0(bytes32)")>>}
        \cup {<<sources.vts_orchestrator, selector(sig)>> :
                 sig \in {"positionToCheckpoint(bytes32)",
                          "getPositionSettledAmounts(bytes32)",
                          "getCommitmentMaxima(bytes32)", "getPosition(bytes32)",
                          "getPool(bytes32)"}}
        \cup {<<sources.liquidity_hub, selector(sig)>> :
                 sig \in {"reserveOfUnderlying(address)", "settleQueue(address,address)"}}

\* The pair of the read is not among them.
NotAllowlisted ==
    <<last.req.check.target, last.req.check.selector>>
        \notin FixedPairs(last.req.facts.sources)

\* C27: the allowlist of a provider is, before and after every read, the
\* eight pairs built from its three sources; a read of a pair outside it
\* fails with ForbiddenCall of that pair and issues no external call, and
\* the StaticCallU256 check of such a pair fails with StaticCallFailed, the
\* only call logged being the oracle method itself.
C27_OffAllowlistIsForbidden ==
    /\ last.req.facts.allowlist = FixedPairs(last.req.facts.sources)
    /\ (last.op = "staticcall_u256" /\ NotAllowlisted) =>
          /\ ~last.ret.ok
          /\ last.ret.err = <<"ForbiddenCall", last.req.check.target, last.req.check.selector>>
          /\ last.ret.calls = <<>>
    /\ (last.op = "evaluate_program" /\ NotAllowlisted) =>
          /\ ~last.ret.ok
          /\ last.ret.err = "StaticCallFailed"
          /\ last.ret.index = 1
          /\ last.ret.calls = asked("staticcall_u256", <<last.req.check.target, last.req.check.selector, last.req.check.args>>)

\* getSlot0 was asked of the orchestrator, which serves it only where the
\* orchestrator is also the state view: the program was refused.
C27_RightSelectorWrongSource ==
    /\ last.op = "evaluate_program"
    /\ last.req.facts.sources = Sources
    /\ last.req.check.target = Sources.vts_orchestrator
    /\ last.req.check.selector = selector("getSlot0(bytes32)")
    /\ ~last.req.world.reverts
    /\ NotAllowlisted
    /\ last.ret.err = "StaticCallFailed"

(***************************************************************************)
(* utils/crypto.rs: ecrecover_address as a pure function of the digest,    *)
(* the signature and the outcome of the precompile call with each v.       *)
(***************************************************************************)
RecoverVs == {0, 1, 2, 26, 27, 28, 29, 255}

\* What a call of the precompile can give: a failed call, no output, an
\* output of 31 bytes, the zero address, or one of two addresses.
PrecompileOutcomes ==
    {[ok |-> FALSE],
     [ok |-> TRUE, val |-> <<>>],
     [ok |-> TRUE, val |-> Zeros(31)],
     [ok |-> TRUE, val |-> pad_address(ADDRESS_ZERO)],
     [ok |-> TRUE, val |-> pad_address(Actors.signer)],
     [ok |-> TRUE, val |-> pad_address(Actors.attacker)]}

RecoverInputs ==
    {[digest |-> b32(9),
      sig |-> b32(3) \o b32(4) \o <<Lit(v)>>,
      precompile |-> TablePrecompile([w \in {27, 28} |-> IF w = 27 THEN o27 ELSE o28])] :
        v \in RecoverVs, o27 \in PrecompileOutcomes, o28 \in PrecompileOutcomes}

RecoverInit ==
    /\ used_ids = EmptyMap
    /\ nonce_of = EmptyMap
    /\ signer_of = EmptyMap
    /\ state_view_of = EmptyMap
    /\ vts_orchestrator_of = EmptyMap
    /\ liquidity_hub_of = EmptyMap
    /\ admitted = EmptyMap
    /\ \E input \in RecoverInputs :
          last = [op |-> "input", req |-> input, ret |-> <<>>, trace |-> <<>>,
                  calls |-> <<>>, pre |-> NoSnapshot, replay |-> FALSE]

\* ecrecover_address(digest, sig) is called on the input.
EcrecoverAddress ==
    /\ last.op = "input"
    /\ last' = [last EXCEPT
                    !.op = "ecrecover_address",
                    !.ret = ecrecover_address_with(last.req.precompile, last.req.digest,
                                                   last.req.sig)]
    /\ UNCHANGED <<storage_vars, admitted>>

RecoverNext == EcrecoverAddress

SpecRecover == RecoverInit /\ [][RecoverNext]_vars

DidRecover == last.op = "ecrecover_address"

VRaw == ByteVal(last.req.sig[65])

VInRange == VRaw \in {0, 1, 27, 28}

\* The v of the first call.
FirstV == IF VRaw \in {27, 28} THEN VRaw ELSE IF VRaw \in {0, 1} THEN VRaw + 27 ELSE 27

OutcomeOf(v) == last.req.precompile.outcomes[v]

CallFails(v) == ~OutcomeOf(v).ok

AddressAt(v) == from_be_slice(SubSeq(OutcomeOf(v).val, 13, 32))

\* The call with v returns at least 32 bytes naming a non-zero address.
Recovers(v) ==
    /\ OutcomeOf(v).ok
    /\ Len(OutcomeOf(v).val) >= 32
    /\ AddressAt(v) # ADDRESS_ZERO

TriedVs == [i \in 1..Len(last.ret.calls) |-> last.ret.calls[i][2]]

Recovered(v) == last.ret.ok /\ last.ret.val = AddressAt(v)

SMALL_U64_MAX == 1

GraceInputs ==
    [now : 0..SMALL_U64_MAX,
     time_of_last_transition : 0..U256_MAX,
     grace_extension0 : 0..U256_MAX,
     grace_extension1 : 0..U256_MAX,
     grace0 : 0..U256_MAX,
     grace1 : 0..U256_MAX]

GraceInit ==
    /\ used_ids = EmptyMap
    /\ nonce_of = EmptyMap
    /\ signer_of = EmptyMap
    /\ state_view_of = EmptyMap
    /\ vts_orchestrator_of = EmptyMap
    /\ liquidity_hub_of = EmptyMap
    /\ admitted = EmptyMap
    /\ \E input \in GraceInputs :
          last = [op |-> "input", req |-> input, ret |-> <<>>, trace |-> <<>>,
                  calls |-> <<>>, pre |-> NoSnapshot, replay |-> FALSE]

\* The remaining time is computed from the words of the input.
GracePeriodRemaining ==
    /\ last.op = "input"
    /\ last' = [last EXCEPT
                    !.op = "grace_period_remaining",
                    !.ret = grace_remaining(U256_MAX, SMALL_U64_MAX, last.req.now,
                                            last.req.time_of_last_transition,
                                            last.req.grace_extension0,
                                            last.req.grace_extension1,
                                            last.req.grace0, last.req.grace1)]
    /\ UNCHANGED <<storage_vars, admitted>>

GraceNext == GracePeriodRemaining

SpecGrace == GraceInit /\ [][GraceNext]_vars

Smaller(a, b) == IF a < b THEN a ELSE b

\* C29: for an open checkpoint the value returned is
\* min(u64::MAX, max(0, min(grace0 + grace_extension0, grace1 +
\* grace_extension1) - max(0, now - time_of_last_transition))), the sums
\* being those of the integers, for all inputs.
C29_RemainingWithoutWrapAround ==
    last.op = "grace_period_remaining" =>
        last.ret =
            Smaller(SMALL_U64_MAX,
                    Monus(Smaller(last.req.grace0 + last.req.grace_extension0,
                                  last.req.grace1 + last.req.grace_extension1),
                          Monus(last.req.now, last.req.time_of_last_transition)))

(***************************************************************************)
(* Installed keys are complete (specification Spec).                       *)
(***************************************************************************)
\* The forms of init data that on_install refuses for a key not installed.
RefusedForms ==
    {"short", "bad_length", "version_2", "zero_signer", "zero_state_view",
     "zero_vts_orchestrator", "zero_liquidity_hub"}

\* The stored signer and fact sources of the key k are all non-zero.
IsComplete(k) ==
    LET stored == Snapshot(Storage, k.wallet, k.pid)
    IN  /\ stored.signer # ADDRESS_ZERO
        /\ stored.state_view # ADDRESS_ZERO
        /\ stored.vts_orchestrator # ADDRESS_ZERO
        /\ stored.liquidity_hub # ADDRESS_ZERO

\* A rejection of check_user_op_policy at its zero-signer test (no call of
\* the precompile follows) or at its zero-source test (no evaluation
\* follows).
RejectedForZeroSigner == Rejected /\ LastStep = "signer" /\ last.pre.signer = ADDRESS_ZERO

RejectedForZeroSource == Rejected /\ LastStep = "sources"

\* C30: every installed key has a non-zero signer, state_view,
\* vts_orchestrator and liquidity_hub; on_install with a zero signer, a zero
\* fact source, init data of a length other than 81 bytes, or a version
\* other than 1 aborts and leaves the storage as it was; and a call of
\* check_user_op_policy for an installed key is never rejected by the
\* zero-signer or the zero-source test.
C30_InstalledKeysAreComplete ==
    /\ [](\A k \in AllKeys : IsInstalled(k) => IsComplete(k))
    /\ []((IsCheck /\ last.pre.state_view # ADDRESS_ZERO) =>
             (~RejectedForZeroSigner /\ ~RejectedForZeroSource))
    /\ [][(last'.op = "on_install" /\ last'.req.form \in RefusedForms) =>
             (Head(last'.ret) = "revert" /\ UNCHANGED storage_vars)]_vars

\* An install without a liquidity hub was refused for a wallet that has its
\* other permission installed.
C30_ZeroSourceInstallRefused ==
    /\ last.op = "on_install"
    /\ last.req.form = "zero_liquidity_hub"
    /\ last.ret = <<"revert", "Invalid fact sources">>
    /\ last.pre.state_view = ADDRESS_ZERO
    /\ IsInstalled(KeyB)
    /\ IsComplete(KeyB)

====
